---------------------------- MODULE Spec2Model ----------------------------
(***************************************************************************)
(* Model of the visa-slot monitor (src/appointment_monitor.py) and of the  *)
(* store client it uses (src/mongodb.py).                                  *)
(*                                                                         *)
(* AppointmentMonitor.monitor_appointments is a coroutine: the event loop  *)
(* runs it from one suspension point (an await that really yields) to the  *)
(* next without interleaving, so every action below is one such segment of *)
(* one task.  detect_changes is a pure function of the stored document and *)
(* the new reading; it is the operator DetectChanges.                      *)
(*                                                                         *)
(* Python values: None is the empty tuple <<>> for slot strings, NoDoc for *)
(* a missing document, 0 for a missing session, -1 for a missing           *)
(* timestamp.  A slot string is the tuple of its characters ("5+" is       *)
(* <<"5", "+">>); a slot map is the tuple of its (month, value) items in   *)
(* insertion order.                                                        *)
(***************************************************************************)
EXTENDS Integers, Sequences, FiniteSets, TLC

\* ------------------------------------------------------------------------
\* Program constants
\* ------------------------------------------------------------------------

\* if duration_since_start > 300 (seconds)
StaleThreshold == 300

\* schedule.every(5).minutes
schedule_minutes == 5

\* run_scheduler polls schedule.run_pending() once per second
poll_seconds == 1

\* batch_size = 5
batch_size == 5

\* max_retries = 2
max_retries == 2

\* for i in range(3): the rolling window of tracked months
tracked_count == 3

\* ------------------------------------------------------------------------
\* Slot strings, slot maps, readings
\* ------------------------------------------------------------------------

\* Python None for a slot value.
NoSlot == <<>>

Digits == <<"0", "1", "2", "3", "4", "5", "6", "7", "8", "9">>

DigitValue(ch) == (CHOOSE k \in 1..10 : Digits[k] = ch) - 1

\* str.replace("+", "")
StripPlus(s) == SelectSeq(s, LAMBDA ch : ch # "+")

\* int() of a string of decimal digits
RECURSIVE ToInt(_)
ToInt(s) ==
    IF Len(s) = 0 THEN 0
    ELSE 10 * ToInt(SubSeq(s, 1, Len(s) - 1)) + DigitValue(s[Len(s)])

\* Variant: "0" counts as an available slot.
IsAvailable_zero(slots) == slots # <<>>

\* "slots and slots != '0'": the value is neither None/empty nor "0"
IsAvailable(slots) == slots # NoSlot /\ slots # <<"0">>

\* Variant: a "+" counts as one more slot.
CurrentValue_plus(slots) ==
    IF slots # <<>> /\ slots # <<"0">>
    THEN ToInt(StripPlus(slots)) + (IF Len(StripPlus(slots)) < Len(slots) THEN 1 ELSE 0)
    ELSE 0

\* current_value = int(slots.replace("+", "")) if slots and slots != "0" else 0
CurrentValue(slots) == IF IsAvailable(slots) THEN ToInt(StripPlus(slots)) ELSE 0

\* Variant: the default also replaces a stored None.
SlotGetOr_none(slot_map, month, default) ==
    IF \E k \in 1..Len(slot_map) : slot_map[k].month = month /\ slot_map[k].value # <<>>
    THEN slot_map[CHOOSE k \in 1..Len(slot_map) : slot_map[k].month = month].value
    ELSE default

\* dict.get(month, default): the value stored under month, default when the
\* key is absent
SlotGetOr(slot_map, month, default) ==
    IF \E k \in 1..Len(slot_map) : slot_map[k].month = month
    THEN slot_map[CHOOSE k \in 1..Len(slot_map) : slot_map[k].month = month].value
    ELSE default

\* dict.get(month)
SlotGet(slot_map, month) == SlotGetOr(slot_map, month, NoSlot)

\* Variant: the previous count is not read.
PreviousValue_zero(previous_slots, month) == 0

\* previous_value = int(previous_slots.get(month, "0").replace("+", ""))
\*                  if previous_slots.get(month) else 0
PreviousValue(previous_slots, month) ==
    IF SlotGet(previous_slots, month) # NoSlot
    THEN ToInt(StripPlus(SlotGetOr(previous_slots, month, <<"0">>)))
    ELSE 0

\* Variant: only the first month of the slot map is looked at.
AnyAvailable_first(slot_map) == slot_map # <<>> /\ IsAvailable(slot_map[1].value)

\* any(slots and slots != "0" for slots in country_data["slots"].values())
AnyAvailable(slot_map) ==
    \E k \in 1..Len(slot_map) : IsAvailable(slot_map[k].value)

\* ------------------------------------------------------------------------
\* Documents of the appointments collection
\* ------------------------------------------------------------------------

\* find_one found nothing: get_last_appointment_data returns None
NoDoc == [exists |-> FALSE, has_countries |-> FALSE, countries |-> <<>>,
          temporarily_unavailable |-> <<>>, has_error |-> FALSE]

\* The dictionary extract_appointment_data returns on success.
ReadingData(reading) ==
    [exists |-> TRUE, has_countries |-> TRUE, countries |-> reading.countries,
     temporarily_unavailable |-> reading.temporarily_unavailable,
     has_error |-> FALSE]

\* The dictionary extract_appointment_data returns with data["error"] set:
\* the base data object (countries [], temporarily_unavailable []) plus error.
ExtractErrorData ==
    [exists |-> TRUE, has_countries |-> TRUE, countries |-> <<>>,
     temporarily_unavailable |-> <<>>, has_error |-> TRUE]

\* error_data = {"city": city, "error": ..., "timestamp": ...}
HandlerErrorData ==
    [exists |-> TRUE, has_countries |-> FALSE, countries |-> <<>>,
     temporarily_unavailable |-> <<>>, has_error |-> TRUE]

\* update_one({"city": city}, {"$set": data}, upsert=True): the keys of data
\* overwrite the stored ones, every other stored key stays as it is.
SetDoc(old, data) ==
    [exists |-> TRUE,
     has_countries |-> old.has_countries \/ data.has_countries,
     countries |-> IF data.has_countries THEN data.countries ELSE old.countries,
     temporarily_unavailable |->
        IF data.has_countries THEN data.temporarily_unavailable
        ELSE old.temporarily_unavailable,
     has_error |-> old.has_error \/ data.has_error]

\* ------------------------------------------------------------------------
\* detect_changes
\* ------------------------------------------------------------------------

NoMonth == "-"

\* One entry of the changes dict.  "slots" is the country's slot map in a
\* new_availability or new_country change; in a new_slots change the code
\* stores the month's slot string under the same key, kept here as month_slots.
Change(country, type, month, previous_slots, new_slots, slots, month_slots) ==
    [country |-> country, type |-> type, month |-> month,
     previous_slots |-> previous_slots, new_slots |-> new_slots, slots |-> slots,
     month_slots |-> month_slots]

\* changes[country] = change: a dict keeps the position of a key it already has
DictSet(changes, change) ==
    IF \E k \in 1..Len(changes) : changes[k].country = change.country
    THEN [k \in 1..Len(changes) |->
            IF changes[k].country = change.country THEN change ELSE changes[k]]
    ELSE Append(changes, change)

\* Variant: a month whose count did not fall gives a change.
RECURSIVE MonthScan_equal(_, _, _, _)
MonthScan_equal(country, current_slots, previous_slots, k) ==
    IF k > Len(current_slots) THEN <<>>
    ELSE IF CurrentValue(current_slots[k].value)
              >= PreviousValue(previous_slots, current_slots[k].month)
    THEN <<Change(country, "increased_availability", current_slots[k].month,
                  SlotGetOr(previous_slots, current_slots[k].month, <<"0">>),
                  current_slots[k].value, <<>>, NoSlot)>>
    ELSE MonthScan_equal(country, current_slots, previous_slots, k + 1)

\* Variant: the new_slots test comes before the comparison of the counts.
RECURSIVE MonthScan_swapped(_, _, _, _)
MonthScan_swapped(country, current_slots, previous_slots, k) ==
    IF k > Len(current_slots) THEN <<>>
    ELSE IF /\ CurrentValue(current_slots[k].value) > 0
            /\ PreviousValue(previous_slots, current_slots[k].month) = 0
    THEN <<Change(country, "new_slots", current_slots[k].month, NoSlot, NoSlot,
                  <<>>, current_slots[k].value)>>
    ELSE IF CurrentValue(current_slots[k].value)
              > PreviousValue(previous_slots, current_slots[k].month)
    THEN <<Change(country, "increased_availability", current_slots[k].month,
                  SlotGetOr(previous_slots, current_slots[k].month, <<"0">>),
                  current_slots[k].value, <<>>, NoSlot)>>
    ELSE MonthScan_swapped(country, current_slots, previous_slots, k + 1)

\* The month loop of one country present in both documents, from position k:
\* the first month with current_value > previous_value gives the change and
\* ends the loop (break).  The elif branch (new_slots) needs
\* current_value > 0, previous_value = 0 and not current_value > previous_value.
RECURSIVE MonthScan(_, _, _, _)
MonthScan(country, current_slots, previous_slots, k) ==
    IF k > Len(current_slots) THEN <<>>
    ELSE LET month == current_slots[k].month
             slots == current_slots[k].value
             current_value == CurrentValue(slots)
             previous_value == PreviousValue(previous_slots, month)
         IN  IF current_value > previous_value
             THEN <<Change(country, "increased_availability", month,
                           SlotGetOr(previous_slots, month, <<"0">>), slots,
                           <<>>, NoSlot)>>
             ELSE IF current_value > 0 /\ previous_value = 0
             THEN <<Change(country, "new_slots", month, NoSlot, NoSlot,
                           <<>>, slots)>>
             ELSE MonthScan(country, current_slots, previous_slots, k + 1)

\* next((c for c in previous_data.get("countries", []) if c["country"] == country), None)
HasCountry(countries, country) ==
    \E k \in 1..Len(countries) : countries[k].country = country

FindCountry(countries, country) ==
    countries[CHOOSE k \in 1..Len(countries) :
                /\ countries[k].country = country
                /\ \A m \in 1..(k - 1) : countries[m].country # country]

\* if not previous_data: one change per country with any available slot
RECURSIVE DetectNew(_, _)
DetectNew(countries, k) ==
    IF k = 0 THEN <<>>
    ELSE LET rest == DetectNew(countries, k - 1)
             country_data == countries[k]
         IN  IF AnyAvailable(country_data.slots)
             THEN DictSet(rest, Change(country_data.country, "new_availability", NoMonth,
                                       NoSlot, NoSlot, country_data.slots, NoSlot))
             ELSE rest

\* the loop over current_data["countries"] when a previous document exists
RECURSIVE DetectAgainst(_, _, _)
DetectAgainst(previous_countries, countries, k) ==
    IF k = 0 THEN <<>>
    ELSE LET rest == DetectAgainst(previous_countries, countries, k - 1)
             country_data == countries[k]
             country == country_data.country
         IN  IF ~HasCountry(previous_countries, country)
             THEN IF AnyAvailable(country_data.slots)
                  THEN DictSet(rest, Change(country, "new_country", NoMonth,
                                            NoSlot, NoSlot, country_data.slots, NoSlot))
                  ELSE rest
             ELSE LET found == MonthScan(country, country_data.slots,
                                FindCountry(previous_countries, country).slots, 1)
                  IN  IF found = <<>> THEN rest ELSE DictSet(rest, found[1])

\* detect_changes(city, current_data) with previous_data the document
\* get_last_appointment_data returned
DetectChanges(previous_data, current_data) ==
    IF ~previous_data.exists
    THEN DetectNew(current_data.countries, Len(current_data.countries))
    ELSE DetectAgainst(previous_data.countries, current_data.countries,
                       Len(current_data.countries))


\* ------------------------------------------------------------------------
\* Bounds of the model
\* ------------------------------------------------------------------------

\* Under the scheduler (Spec): scheduler firings after the initial cycle,
\* failures the environment (engine, store) injects in one behaviour, and
\* cities of the roster.
MaxTicks == 3

MaxFaults == 1

NumCities == 2

\* One cycle over several batches (SpecBatch): cities of the roster and
\* failures injected.
BatchCities == 6

BatchFaults == 3

\* detect_changes on its own (SpecDetect): countries of a document.
MaxCountries == 2

\* ------------------------------------------------------------------------
\* State
\* ------------------------------------------------------------------------

VARIABLES
    monitor,        \* the AppointmentMonitor instance: crawler,
                    \* initializing_crawler (_initializing_crawler),
                    \* monitoring_in_progress, last_monitoring_start
    all_cities,     \* the roster, cities_by_country flattened
    store,          \* appointments collection: city -> document
    users,          \* users collection: city -> users with cityFrom = city
    open_sessions,  \* engine sessions opened (__aenter__) and not yet closed
    page,           \* what the remote page of each city shows now
    task,           \* invocation -> the coroutine's position and locals
    now,            \* wall clock, seconds
    ticks_left,     \* scheduler firings still to come
    faults_left,    \* failures the environment may still inject
    sent,           \* the sends the notification service was asked for, in order
    subs_in,        \* get_active_subscriptions called on its own: the users
                    \* collection, the query and the time of the call
    subs_out,       \* get_active_subscriptions called on its own: whether it
                    \* has returned, and the users it returned
    calls,          \* setup_crawler and cleanup_crawler called on their own:
                    \* the calls still to come and each caller's call
    detect_in,      \* detect_changes called on its own: the stored document
                    \* and the new reading
    detect_out      \* detect_changes called on its own: whether it has
                    \* returned, and the changes it returned

vars == <<monitor, all_cities, store, users, open_sessions, page, task, now,
          ticks_left, faults_left, sent, subs_in, subs_out, calls, detect_in,
          detect_out>>

\* the variables of the functions called on their own
harnessVars == <<subs_in, subs_out, calls, detect_in, detect_out>>

envVars == <<all_cities, users, page, ticks_left, sent, harnessVars>>

\* Invocation 0 is the cycle main() awaits before it starts the scheduler;
\* invocation k > 0 is the task the k-th scheduler firing creates.
Tasks == 0..MaxTicks

\* self.crawler = None; a task holding no session object
NoSession == 0

\* self.last_monitoring_start = None
NoTime == -1

TrackedMonths == <<"MAY", "JUN", "JUL">>

SlotMap(values) ==
    [k \in 1..tracked_count |-> [month |-> TrackedMonths[k], value |-> values[k]]]

CountryData(country, values) == [country |-> country, slots |-> SlotMap(values)]

\* Two pages of the remote site: no slot open, and three or more in the first month.
LowReading ==
    [countries |-> <<CountryData("France", <<<<"0">>, NoSlot, NoSlot>>)>>,
     temporarily_unavailable |-> <<"Spain">>]

HighReading ==
    [countries |-> <<CountryData("France", <<<<"3", "+">>, NoSlot, NoSlot>>)>>,
     temporarily_unavailable |-> <<"Spain">>]

Readings == {LowReading, HighReading}

\* Locals of a task that is not inside a city.
NoData == NoDoc

\* The locals of monitor_appointments and of the extract_appointment_data it
\* is in, and a record of what the task did: the document the store held
\* when the extraction returned (stored_before), the cities whose body it
\* has entered in this cycle (visited), the cities it has called
\* extract_appointment_data for (checked), and for the city it is in the number
\* of arun calls (fetches), the number of setup_crawler calls of the
\* extraction (setups) and how the last arun ended (outcome).
IdleLocals(pc) ==
    [pc |-> pc, i |-> 0, j |-> 0, retry_count |-> 0, ref |-> NoSession,
     current_data |-> NoData, changes |-> <<>>, stored_before |-> NoDoc,
     visited |-> <<>>, checked |-> <<>>, fetches |-> 0, setups |-> 0, outcome |-> "none"]

\* A task is inside a cycle from the moment it takes the lock until its
\* finally block has run.
CyclePcs == {"batch_cleanup", "batch_setup", "batch_skip_sleep", "city_setup",
             "city_setup_save", "x_setup", "x_arun", "x_sleep", "x_cleanup",
             "city_save", "city_get_last", "city_get_users", "city_err_save",
             "city_sleep", "batch_end_cleanup", "batch_end_sleep",
             "final_cleanup"}

InCycle(t) == task[t].pc \in CyclePcs

\* The city a task is working on.
CityOf(l) == all_cities[l.j]

\* A session object never seen before: the engine returns a new crawler.
SessionRefs ==
    {monitor.crawler} \cup open_sessions \cup {task[t].ref : t \in Tasks}
        \cup {calls.by[c].ref : c \in DOMAIN calls.by}

FreshSession == CHOOSE sid \in 1..(Cardinality(SessionRefs) + 1) : sid \notin SessionRefs


\* ------------------------------------------------------------------------
\* Segments of monitor_appointments: the code a task runs, without
\* suspending, from one point of the coroutine to its next suspension.
\* Each takes the monitor's fields m and the task's locals l as they are at
\* that point and gives them as they are when the task suspends or ends.
\* ------------------------------------------------------------------------

Suspend(m, l, pc) == [m |-> m, l |-> [l EXCEPT !.pc = pc]]

Done(m) == [m |-> m, l |-> IdleLocals("done")]

\* the coroutine ends with an exception that goes to its caller
Raised(m) == [m |-> m, l |-> IdleLocals("raised")]

\* Variant: the flag is reset only after a crawler was cleaned up.
Finally_kept(m, l) ==
    IF m.crawler # 0
    THEN [m |-> m, l |-> [l EXCEPT !.ref = m.crawler, !.pc = "final_cleanup"]]
    ELSE [m |-> m,
          l |-> [pc |-> "done", i |-> 0, j |-> 0, retry_count |-> 0, ref |-> 0,
                 current_data |-> NoDoc, changes |-> <<>>, stored_before |-> NoDoc,
                 visited |-> <<>>, checked |-> <<>>, fetches |-> 0, setups |-> 0, outcome |-> "none"]]

\* finally: clean up the crawler if there is one, then
\* self.monitoring_in_progress = False
ReleaseLock(m) == [m EXCEPT !.monitoring_in_progress = FALSE]

Finally(m, l) ==
    IF m.crawler # NoSession
    THEN Suspend(m, [l EXCEPT !.ref = m.crawler], "final_cleanup")
    ELSE Done(ReleaseLock(m))

\* self._initializing_crawler = False; await self.setup_crawler() with no
\* crawler: the flag is set and the task suspends in __aenter__
BatchSetup(m, l) ==
    Suspend([m EXCEPT !.initializing_crawler = TRUE], l, "batch_setup")

\* Variant: monitor_appointments has no handler for an exception that
\* leaves the batch loop.
CycleExcept_none(m, l) == Raised(ReleaseLock(m))

\* except Exception as e: logger.error(...); the finally block follows
CycleExcept(m, l) == Finally(m, l)

\* for i in range(0, len(all_cities), batch_size): await self.cleanup_crawler()
StartBatch(m, l) ==
    IF l.i > Len(all_cities) THEN Finally(m, l)
    ELSE IF m.crawler # NoSession
    THEN Suspend(m, [l EXCEPT !.ref = m.crawler], "batch_cleanup")
    ELSE BatchSetup(m, l)

\* after the batch's cities: await self.cleanup_crawler(); asyncio.sleep(5)
EndBatch(m, l) ==
    IF m.crawler # NoSession
    THEN Suspend(m, [l EXCEPT !.ref = m.crawler], "batch_end_cleanup")
    ELSE Suspend(m, l, "batch_end_sleep")

\* extract_appointment_data returned data: if current_data: save it
AfterExtract(m, l, data) ==
    Suspend(m, [l EXCEPT !.current_data = data, !.ref = NoSession,
                         !.stored_before = store[CityOf(l)]], "city_save")

\* top of the while loop of extract_appointment_data
ExtractLoop(m, l) ==
    IF m.crawler = NoSession
    THEN Suspend([m EXCEPT !.initializing_crawler = TRUE],
                 [l EXCEPT !.setups = l.setups + 1], "x_setup")
    ELSE Suspend(m, [l EXCEPT !.ref = m.crawler, !.fetches = l.fetches + 1],
                 "x_arun")

\* current_data = await self.extract_appointment_data(city): the call of the
\* check for the city, recorded in checked
Extract(m, l) ==
    ExtractLoop(m, [l EXCEPT !.checked = Append(l.checked, CityOf(l))])

\* the last index of the batch that starts at i: all_cities[i:i+batch_size]
BatchLast(i) ==
    IF i + batch_size - 1 < Len(all_cities) THEN i + batch_size - 1
    ELSE Len(all_cities)

\* for country, city in batch: the start of one city
EnterCity(m, l) ==
    IF l.j > BatchLast(l.i) THEN EndBatch(m, l)
    ELSE LET fresh == [l EXCEPT !.retry_count = 0, !.ref = NoSession,
                                !.current_data = NoData, !.changes = <<>>,
                                !.stored_before = NoDoc,
                                !.visited = Append(l.visited, CityOf(l)),
                                !.fetches = 0, !.setups = 0, !.outcome = "none"]
         IN  IF m.crawler = NoSession
             THEN Suspend([m EXCEPT !.initializing_crawler = TRUE], fresh,
                          "city_setup")
             ELSE Extract(m, fresh)

\* Variant: the city after the next one follows.
NextCity_skip(m, l) == EnterCity(m, [l EXCEPT !.j = l.j + 2])

\* asyncio.sleep(2) is over, or `continue`: the next city of the batch
NextCity(m, l) == EnterCity(m, [l EXCEPT !.j = l.j + 1])

\* Variant: a skipped or finished batch is started again.
NextBatch_again(m, l) == StartBatch(m, [l EXCEPT !.j = 0])

\* the next batch
NextBatch(m, l) == StartBatch(m, [l EXCEPT !.i = l.i + batch_size, !.j = 0])

\* Variant: stale at the threshold already.
IsStale_at(m, t_now) == t_now - m.last_monitoring_start >= StaleThreshold

\* if duration_since_start > 300
IsStale(m, t_now) == t_now - m.last_monitoring_start > StaleThreshold

\* monitor_appointments from its first line to its first suspension
Invoke(m, t_now) ==
    IF m.monitoring_in_progress
    THEN IF m.last_monitoring_start # NoTime /\ IsStale(m, t_now)
         THEN LET reset == ReleaseLock(m)
              IN  IF reset.crawler # NoSession
                  THEN Suspend(reset, [IdleLocals("stale_cleanup")
                                         EXCEPT !.ref = reset.crawler],
                               "stale_cleanup")
                  ELSE Done(reset)
         ELSE Done(m)
    ELSE StartBatch([m EXCEPT !.monitoring_in_progress = TRUE,
                              !.last_monitoring_start = t_now],
                    [IdleLocals("start") EXCEPT !.i = 1])

\* Variant: the reference to the crawler survives the clean-up.
CrawlerCleared_kept(m) == [m EXCEPT !.initializing_crawler = FALSE]

\* cleanup_crawler after its await: finally: self.crawler = None;
\* self._initializing_crawler = False
CrawlerCleared(m) == [m EXCEPT !.crawler = NoSession,
                               !.initializing_crawler = FALSE]

\* setup_crawler after a successful __aenter__
CrawlerReady(m, sid) == [m EXCEPT !.crawler = sid,
                                  !.initializing_crawler = FALSE]


\* ------------------------------------------------------------------------
\* Actions: one per suspension point, with the outcome of the awaited call
\* ------------------------------------------------------------------------

Apply(t, r) ==
    /\ monitor' = r.m
    /\ task' = [task EXCEPT ![t] = r.l]

\* An injected failure uses up one unit of the behaviour's budget.
Fault == faults_left > 0 /\ faults_left' = faults_left - 1

NoFault == faults_left' = faults_left

\* await self.crawler.__aexit__(None, None, None) has ended for the object
\* the task called it on: it returned, or it raised and cleanup_crawler
\* caught and logged the exception (and that of browser.close()).  Either
\* way the object has been told to close and is no longer in open_sessions.
Closed(t) ==
    /\ NoFault \/ Fault
    /\ open_sessions' = open_sessions \ {task[t].ref}

\* AsyncWebCrawler(config=...).__aenter__() returned a crawler
Opened(sid) == open_sessions' = open_sessions \cup {sid}

Unref(l) == [l EXCEPT !.ref = NoSession]

\* main(): await monitor.monitor_appointments(), the initial cycle
InitialRun ==
    /\ task[0].pc = "start"
    /\ Apply(0, Invoke(monitor, now))
    /\ UNCHANGED <<store, open_sessions, now, faults_left>>
    /\ UNCHANGED envVars

\* schedule.every(5).minutes.do(... create_task(monitor.monitor_appointments())):
\* the job fires at the first poll at or after its period, and the new task
\* runs to its first suspension.
NewTask == CHOOSE t \in Tasks : task[t].pc = "idle" /\ \A u \in 0..(t - 1) : task[u].pc # "idle"

Tick ==
    /\ task[0].pc = "done"
    /\ ticks_left > 0
    /\ \E late \in {0, poll_seconds} :
          /\ now' = now + schedule_minutes * 60 + late
          /\ Apply(NewTask, Invoke(monitor, now'))
    /\ ticks_left' = ticks_left - 1
    /\ UNCHANGED <<store, open_sessions, faults_left>>
    /\ UNCHANGED <<all_cities, users, page, sent, harnessVars>>

\* stale path: await self.cleanup_crawler() is over; return
StaleCleanupDone(t) ==
    /\ task[t].pc = "stale_cleanup"
    /\ Closed(t)
    /\ Apply(t, Done(CrawlerCleared(monitor)))
    /\ UNCHANGED <<store, now>>
    /\ UNCHANGED envVars

\* batch start: await self.cleanup_crawler() is over; reset the flag, set up
BatchCleanupDone(t) ==
    /\ task[t].pc = "batch_cleanup"
    /\ Closed(t)
    /\ Apply(t, BatchSetup(CrawlerCleared(monitor), Unref(task[t])))
    /\ UNCHANGED <<store, now>>
    /\ UNCHANGED envVars

\* batch start: setup_crawler is over.  True: the batch's cities follow.
\* False (timeout or exception in __aenter__): the batch is skipped after
\* asyncio.sleep(5).
BatchSetupDone(t) ==
    /\ task[t].pc = "batch_setup"
    /\ \/ /\ NoFault
          /\ Opened(FreshSession)
          /\ Apply(t, EnterCity(CrawlerReady(monitor, FreshSession),
                                [task[t] EXCEPT !.j = task[t].i]))
       \/ /\ Fault
          /\ UNCHANGED open_sessions
          /\ Apply(t, Suspend(CrawlerCleared(monitor), task[t], "batch_skip_sleep"))
    /\ UNCHANGED <<store, now>>
    /\ UNCHANGED envVars

\* asyncio.sleep(5) of a skipped batch is over; continue
BatchSkipSleepDone(t) ==
    /\ task[t].pc = "batch_skip_sleep"
    /\ Apply(t, NextBatch(monitor, task[t]))
    /\ UNCHANGED <<store, open_sessions, now, faults_left>>
    /\ UNCHANGED envVars

\* a city found self.crawler None: setup_crawler is over.  False: error_data
\* is saved and the loop continues.
CitySetupDone(t) ==
    /\ task[t].pc = "city_setup"
    /\ \/ /\ NoFault
          /\ Opened(FreshSession)
          /\ Apply(t, Extract(CrawlerReady(monitor, FreshSession), task[t]))
       \/ /\ Fault
          /\ UNCHANGED open_sessions
          /\ Apply(t, Suspend(CrawlerCleared(monitor), task[t], "city_setup_save"))
    /\ UNCHANGED <<store, now>>
    /\ UNCHANGED envVars

\* save_appointment_data(city, data): True with the document updated, or
\* False with the collection as it was (the exception is caught and logged)
Saved(city, data) ==
    \/ /\ NoFault
       /\ store' = [store EXCEPT ![city] = SetDoc(store[city], data)]
    \/ /\ Fault
       /\ UNCHANGED store

\* the save of the error_data of a failed reinitialisation is over; continue
CitySetupSaveDone(t) ==
    /\ task[t].pc = "city_setup_save"
    /\ Saved(CityOf(task[t]), HandlerErrorData)
    /\ Apply(t, NextCity(monitor, task[t]))
    /\ UNCHANGED <<open_sessions, now>>
    /\ UNCHANGED envVars

\* extract_appointment_data: setup_crawler is over
XSetupDone(t) ==
    /\ task[t].pc = "x_setup"
    /\ \/ /\ NoFault
          /\ Opened(FreshSession)
          /\ Apply(t, ExtractLoop(CrawlerReady(monitor, FreshSession), task[t]))
       \/ /\ Fault
          /\ UNCHANGED open_sessions
          /\ Apply(t, AfterExtract(CrawlerCleared(monitor), task[t], ExtractErrorData))
    /\ UNCHANGED <<store, now>>
    /\ UNCHANGED envVars


\* the arun of the task has ended in the given way
Ended(l, outcome) == [l EXCEPT !.outcome = outcome]

\* Variant: the failed attempts are not counted.
Retried_same(l) == [l EXCEPT !.ref = NoSession]

\* retry_count += 1 after a failed arun
Retried(l) == [l EXCEPT !.retry_count = l.retry_count + 1, !.ref = NoSession]

\* except AttributeError with "None" in its text: self.crawler = None,
\* cleanup_crawler() (which then does nothing), retry_count += 1, and
\* asyncio.sleep(1) before a new set-up if a retry is left
AfterNoneError(m, l) ==
    LET cleared == [m EXCEPT !.crawler = NoSession]
    IN  IF Retried(l).retry_count <= max_retries
        THEN Suspend(cleared, Retried(l), "x_sleep")
        ELSE AfterExtract(cleared, Retried(l), ExtractErrorData)

\* except Exception as arun_error (and an AttributeError of another text,
\* which the outer handler treats the same way): retry_count += 1; if a
\* retry is left, cleanup_crawler() and a new set-up, else the error data
AfterArunError(m, l) ==
    IF Retried(l).retry_count <= max_retries
    THEN IF m.crawler # NoSession
         THEN Suspend(m, [Retried(l) EXCEPT !.ref = m.crawler], "x_cleanup")
         ELSE ExtractLoop([m EXCEPT !.initializing_crawler = FALSE], Retried(l))
    ELSE AfterExtract(m, Retried(l), ExtractErrorData)

\* Variant: an unsuccessful result is handled like an exception of arun.
AfterBadResult_retry(m, l) ==
    IF l.retry_count + 1 <= max_retries
    THEN IF m.crawler # NoSession
         THEN Suspend(m, [l EXCEPT !.retry_count = l.retry_count + 1,
                                   !.ref = m.crawler], "x_cleanup")
         ELSE ExtractLoop(m, [l EXCEPT !.retry_count = l.retry_count + 1])
    ELSE AfterExtract(m, [l EXCEPT !.retry_count = l.retry_count + 1],
                      ExtractErrorData)

\* success is None or False, markdown is missing, or the parsing raised:
\* data["error"] = ...; return data
AfterBadResult(m, l) == AfterExtract(m, l, ExtractErrorData)

\* result = await current_crawler.arun(...) is over: a result with the
\* page parsed, a result that is unsuccessful, malformed or unparsable, an
\* exception, or an AttributeError on None
XArunDone(t) ==
    /\ task[t].pc = "x_arun"
    /\ \/ /\ NoFault
          /\ Apply(t, AfterExtract(monitor, Ended(task[t], "data"),
                                   ReadingData(page[CityOf(task[t])])))
       \/ /\ Fault
          /\ Apply(t, AfterBadResult(monitor, Ended(task[t], "unsuccessful")))
       \/ /\ Fault
          /\ Apply(t, AfterArunError(monitor, Ended(task[t], "raised")))
       \/ /\ Fault
          /\ Apply(t, AfterNoneError(monitor, Ended(task[t], "invalid")))
    /\ UNCHANGED <<store, open_sessions, now>>
    /\ UNCHANGED envVars

\* asyncio.sleep(1) is over: reset the flag, setup_crawler(), continue
XSleepDone(t) ==
    /\ task[t].pc = "x_sleep"
    /\ Apply(t, ExtractLoop([monitor EXCEPT !.initializing_crawler = FALSE],
                            task[t]))
    /\ UNCHANGED <<store, open_sessions, now, faults_left>>
    /\ UNCHANGED envVars

\* the cleanup_crawler() before a retry is over: set up a new crawler
XCleanupDone(t) ==
    /\ task[t].pc = "x_cleanup"
    /\ Closed(t)
    /\ Apply(t, ExtractLoop(CrawlerCleared(monitor), Unref(task[t])))
    /\ UNCHANGED <<store, now>>
    /\ UNCHANGED envVars

\* Variant: detect_changes is called for error data as well.
AfterSave_detect(m, l) == Suspend(m, l, "city_get_last")

\* if "error" not in current_data: detect_changes and notify_users; else
\* the pause after the city
AfterSave(m, l) ==
    Suspend(m, l, IF l.current_data.has_error THEN "city_sleep"
                  ELSE "city_get_last")

\* await self.db.save_appointment_data(city, current_data) is over:
\* detect_changes follows if the data carries no error
CitySaveDone(t) ==
    /\ task[t].pc = "city_save"
    /\ Saved(CityOf(task[t]), task[t].current_data)
    /\ Apply(t, AfterSave(monitor, task[t]))
    /\ UNCHANGED <<open_sessions, now>>
    /\ UNCHANGED envVars

\* Variant: the reading is compared with the document the store held before
\* the reading was saved.
Detected_before(t, previous_data) ==
    Apply(t, Suspend(monitor,
                     [task[t] EXCEPT !.changes =
                         DetectChanges(task[t].stored_before, task[t].current_data)],
                     IF DetectChanges(task[t].stored_before, task[t].current_data) # <<>>
                     THEN "city_get_users" ELSE "city_sleep"))

\* detect_changes: get_last_appointment_data returned the stored document,
\* or None after an exception; notify_users follows if there are changes
Detected(t, previous_data) ==
    LET changes == DetectChanges(previous_data, task[t].current_data)
    IN  Apply(t, Suspend(monitor, [task[t] EXCEPT !.changes = changes],
                         IF changes # <<>> THEN "city_get_users"
                         ELSE "city_sleep"))

CityGetLastDone(t) ==
    /\ task[t].pc = "city_get_last"
    /\ \/ /\ NoFault
          /\ Detected(t, store[CityOf(task[t])])
       \/ /\ Fault
          /\ Detected(t, NoDoc)
    /\ UNCHANGED <<store, open_sessions, now>>
    /\ UNCHANGED envVars

\* @dataclass class NotificationData: city, changes, timestamp
NotificationDataFields == {"city", "changes", "timestamp"}

\* NotificationData(city=, country=, message=, change_type=, url=, timestamp=)
NotifyKeywords == {"city", "country", "message", "change_type", "url", "timestamp"}

\* The __init__ of a dataclass raises TypeError for a keyword that is not a
\* field and for a field without default that is not given.
ConstructorRaises(keywords) == keywords # NotificationDataFields

\* notify_user(email, phone, data): send_email, then send_sms; each catches
\* its own failure and returns False
NotifyUser(city, country, user) ==
    <<[channel |-> "email", to |-> user.email, city |-> city, country |-> country],
      [channel |-> "sms", to |-> user.phone, city |-> city, country |-> country]>>

\* for user in users: await self.notification_service.notify_user(...)
RECURSIVE NotifyEach(_, _, _, _)
NotifyEach(city, country, found, k) ==
    IF k = 0 THEN <<>>
    ELSE NotifyEach(city, country, found, k - 1) \o NotifyUser(city, country, found[k])

\* for country, change_data in changes.items(): ...
RECURSIVE NotifyChanges(_, _, _, _)
NotifyChanges(city, changes, found, k) ==
    IF k = 0 THEN <<>>
    ELSE NotifyChanges(city, changes, found, k - 1)
            \o NotifyEach(city, changes[k].country, found, Len(found))

\* Variant: the TypeError of the constructor is not caught by the city's
\* handler and leaves the batch loop.
Notified_abort(t, found) ==
    /\ sent' = sent
    /\ IF found = <<>>
       THEN Apply(t, Suspend(monitor, task[t], "city_sleep"))
       ELSE Apply(t, Finally(monitor, task[t]))

\* notify_users: get_users_by_city returned the users, or [] after an
\* exception.  Without users it returns.  With users it builds the
\* NotificationData of the first change before any send: a TypeError of the
\* constructor leaves notify_users and reaches the city's handler, which
\* saves error_data.  The sends themselves do not suspend.
Notified(t, found) ==
    IF found = <<>>
    THEN /\ sent' = sent
         /\ Apply(t, Suspend(monitor, task[t], "city_sleep"))
    ELSE IF ConstructorRaises(NotifyKeywords)
    THEN /\ sent' = sent
         /\ Apply(t, Suspend(monitor, task[t], "city_err_save"))
    ELSE /\ sent' = sent \o NotifyChanges(CityOf(task[t]), task[t].changes, found,
                                         Len(task[t].changes))
         /\ Apply(t, Suspend(monitor, task[t], "city_sleep"))

\* Variant: the exception of the query leaves get_users_by_city and reaches
\* the city's handler.
LookupFailed_raise(t) ==
    /\ sent' = sent
    /\ Apply(t, Suspend(monitor, task[t], "city_err_save"))

\* get_users_by_city: except Exception: logger.error(...); return []
LookupFailed(t) == Notified(t, <<>>)

CityGetUsersDone(t) ==
    /\ task[t].pc = "city_get_users"
    /\ \/ /\ NoFault
          /\ Notified(t, users[CityOf(task[t])])
       \/ /\ Fault
          /\ LookupFailed(t)
    /\ UNCHANGED <<store, open_sessions, now>>
    /\ UNCHANGED <<all_cities, users, page, ticks_left, harnessVars>>

\* except Exception as city_error: the save of error_data is over
CityErrSaveDone(t) ==
    /\ task[t].pc = "city_err_save"
    /\ Saved(CityOf(task[t]), HandlerErrorData)
    /\ Apply(t, Suspend(monitor, task[t], "city_sleep"))
    /\ UNCHANGED <<open_sessions, now>>
    /\ UNCHANGED envVars

\* asyncio.sleep(2) is over: the next city
CitySleepDone(t) ==
    /\ task[t].pc = "city_sleep"
    /\ Apply(t, NextCity(monitor, task[t]))
    /\ UNCHANGED <<store, open_sessions, now, faults_left>>
    /\ UNCHANGED envVars

\* end of batch: cleanup_crawler() is over; asyncio.sleep(5)
BatchEndCleanupDone(t) ==
    /\ task[t].pc = "batch_end_cleanup"
    /\ Closed(t)
    /\ Apply(t, Suspend(CrawlerCleared(monitor), Unref(task[t]), "batch_end_sleep"))
    /\ UNCHANGED <<store, now>>
    /\ UNCHANGED envVars

\* asyncio.sleep(5) between batches is over: the next batch
BatchEndSleepDone(t) ==
    /\ task[t].pc = "batch_end_sleep"
    /\ Apply(t, NextBatch(monitor, task[t]))
    /\ UNCHANGED <<store, open_sessions, now, faults_left>>
    /\ UNCHANGED envVars

\* except Exception as e: an exception no inner handler caught leaves the
\* batch loop (taken here at the pause between batches); finally follows
CycleRaise(t) ==
    /\ task[t].pc = "batch_end_sleep"
    /\ Fault
    /\ Apply(t, CycleExcept(monitor, task[t]))
    /\ UNCHANGED <<store, open_sessions, now>>
    /\ UNCHANGED envVars

\* finally: cleanup_crawler() is over; the flag is reset and the cycle ends
FinalCleanupDone(t) ==
    /\ task[t].pc = "final_cleanup"
    /\ Closed(t)
    /\ Apply(t, Done(ReleaseLock(CrawlerCleared(monitor))))
    /\ UNCHANGED <<store, now>>
    /\ UNCHANGED envVars

\* The steps of a cycle that one cycle running alone can take.
CycleStep(t) ==
    \/ BatchSetupDone(t)
    \/ BatchSkipSleepDone(t)
    \/ CitySetupDone(t)
    \/ CitySetupSaveDone(t)
    \/ XSetupDone(t)
    \/ XArunDone(t)
    \/ XSleepDone(t)
    \/ XCleanupDone(t)
    \/ CitySaveDone(t)
    \/ CityGetLastDone(t)
    \/ CityGetUsersDone(t)
    \/ CityErrSaveDone(t)
    \/ CitySleepDone(t)
    \/ BatchEndCleanupDone(t)
    \/ BatchEndSleepDone(t)
    \/ CycleRaise(t)

\* The steps that need a crawler another task left behind or took away.
SharedStep(t) ==
    \/ StaleCleanupDone(t)
    \/ BatchCleanupDone(t)
    \/ FinalCleanupDone(t)

\* ------------------------------------------------------------------------
\* Specifications
\* ------------------------------------------------------------------------

InitMonitor ==
    [crawler |-> NoSession, initializing_crawler |-> FALSE,
     monitoring_in_progress |-> FALSE, last_monitoring_start |-> NoTime]

\* The users collection: the first city has a weekly subscriber who has
\* just paid and one with a plan that is not known; no other city has any.
\* A paymentDate is an ISO string: its day, counted from the start of the
\* program, and its suffix ("" or "Z").
InitUsers(n) ==
    [c \in 1..n |->
        IF c = 1
        THEN <<[email |-> "a@x", phone |-> "1", cityFrom |-> 1,
                countryFrom |-> "France", subscriptionType |-> "weekly",
                paymentDate |-> [day |-> 0, suffix |-> ""]],
               [email |-> "b@x", phone |-> "2", cityFrom |-> 1,
                countryFrom |-> "France", subscriptionType |-> "yearly",
                paymentDate |-> [day |-> 0, suffix |-> ""]]>>
        ELSE <<>>]

\* The collection outlives the process: the first city has the document an
\* earlier run saved when its page showed LowReading, the others have none.
InitStore(n) ==
    [c \in 1..n |-> IF c = 1 THEN ReadingData(LowReading) ELSE NoDoc]

\* detect_changes is not called on its own under the scheduler.
NoDetect == [previous_data |-> NoDoc, current_data |-> NoDoc]

NotReturned == [returned |-> FALSE, changes |-> <<>>]

\* get_active_subscriptions is not called on its own under the scheduler.
NoQuery == [users |-> <<>>, city |-> 0, country |-> "", current_time |-> 0]

NoUsers == [pc |-> "idle", users |-> <<>>]

\* Nor are setup_crawler and cleanup_crawler.
NoCalls == [left |-> 0, by |-> <<>>]

\* The state after AppointmentMonitor() with a roster of n cities.
InitWith(n, ticks, flts) ==
    /\ monitor = InitMonitor
    /\ all_cities = [c \in 1..n |-> c]
    /\ store = InitStore(n)
    /\ users = InitUsers(n)
    /\ open_sessions = {}
    /\ page = [c \in 1..n |-> HighReading]
    /\ task = [t \in Tasks |-> IdleLocals(IF t = 0 THEN "start" ELSE "idle")]
    /\ now = 0
    /\ ticks_left = ticks
    /\ faults_left = flts
    /\ sent = <<>>
    /\ subs_in = NoQuery
    /\ subs_out = NoUsers
    /\ calls = NoCalls
    /\ detect_in = NoDetect
    /\ detect_out = NotReturned

\* The monitor under its scheduler.
Init == InitWith(NumCities, MaxTicks, MaxFaults)

Next ==
    \/ InitialRun
    \/ Tick
    \/ \E t \in Tasks : CycleStep(t) \/ SharedStep(t)

Spec == Init /\ [][Next]_vars

\* The initial cycle alone, over a roster of more than one batch.
InitBatch == InitWith(BatchCities, 0, BatchFaults)

NextCycle ==
    \/ InitialRun
    \/ \E t \in Tasks : CycleStep(t)

SpecBatch == InitBatch /\ [][NextCycle]_vars

\* ------------------------------------------------------------------------
\* detect_changes on its own, over bounded documents and readings
\* ------------------------------------------------------------------------

\* Slot strings of the pages: None, "0", counts, and a capped count.
SlotValues == {NoSlot, <<"0">>, <<"2">>, <<"3">>, <<"5", "+">>}

CountryNames == <<"France", "Spain", "Italy", "Greece">>

\* Every slot map over the tracked months, for the first country.
AllValues == [1..tracked_count -> SlotValues]

\* A further country has nothing open or one month open; the document
\* stored for it has that one month open.
NothingOpen == [k \in 1..tracked_count |-> NoSlot]

OneOpen == [k \in 1..tracked_count |-> IF k = 1 THEN <<"2">> ELSE NoSlot]

ValuesOf(k, stored) ==
    IF k = 1 THEN AllValues
    ELSE IF stored THEN {OneOpen}
    ELSE {NothingOpen, OneOpen}

\* a "countries" list, read or stored: the first n countries, each with a
\* slot map of its own
CountryLists(n, stored) ==
    {[k \in 1..n |-> CountryData(CountryNames[k], f[k])] :
        f \in {g \in [1..n -> AllValues \cup {NothingOpen, OneOpen}] :
                  \A k \in 1..n : g[k] \in ValuesOf(k, stored)}}

CurrentDocs ==
    {ReadingData([countries |-> cs, temporarily_unavailable |-> <<>>]) :
        cs \in UNION {CountryLists(n, FALSE) : n \in 1..MaxCountries}}

\* The tuple s without the positions outside keep, order kept.
RECURSIVE Keep(_, _, _)
Keep(s, keep, k) ==
    IF k = 0 THEN <<>>
    ELSE IF k \in keep THEN Append(Keep(s, keep, k - 1), s[k])
    ELSE Keep(s, keep, k - 1)

\* The stored document: none, or one whose countries are some of the
\* MaxCountries countries.
PreviousDocs ==
    {NoDoc} \cup
    {ReadingData([countries |-> Keep(cs, keep, MaxCountries),
                  temporarily_unavailable |-> <<>>]) :
        cs \in CountryLists(MaxCountries, TRUE),
        keep \in SUBSET (1..MaxCountries)}

InitDetect ==
    /\ monitor = InitMonitor
    /\ all_cities = <<1>>
    /\ store = InitStore(1)
    /\ users = InitUsers(1)
    /\ open_sessions = {}
    /\ page = <<HighReading>>
    /\ task = [t \in Tasks |-> IdleLocals("idle")]
    /\ now = 0
    /\ ticks_left = 0
    /\ faults_left = 0
    /\ sent = <<>>
    /\ subs_in = NoQuery
    /\ subs_out = NoUsers
    /\ calls = NoCalls
    /\ detect_in \in [previous_data : PreviousDocs, current_data : CurrentDocs]
    /\ detect_out = NotReturned

\* changes = await self.detect_changes(city, current_data), with
\* get_last_appointment_data returning detect_in.previous_data
Detect ==
    /\ ~detect_out.returned
    /\ detect_out' = [returned |-> TRUE,
                      changes |-> DetectChanges(detect_in.previous_data,
                                                detect_in.current_data)]
    /\ UNCHANGED <<monitor, all_cities, store, users, open_sessions, page, task,
                   now, ticks_left, faults_left, sent, subs_in, subs_out, calls,
                   detect_in>>

NextDetect == Detect

SpecDetect == InitDetect /\ [][NextDetect]_vars

\* ------------------------------------------------------------------------
\* notify_users_of_changes of the crawler, for one change, with
\* get_active_subscriptions (SpecSubs).  Time is counted in days.
\* ------------------------------------------------------------------------

\* timedelta(days=7)
weekly_days == 7

\* timedelta(days=30)
monthly_days == 30

\* datetime.fromisoformat(user["paymentDate"].replace("Z", "+00:00")): a
\* string with a suffix gives a datetime that carries an offset
FromIsoFormat(paymentDate) ==
    [day |-> paymentDate.day, aware |-> paymentDate.suffix # ""]

\* Variant: a subscription type that is not known counts as weekly.
KnownPlan_any(subscription_type) == subscription_type = subscription_type

\* if subscription_type == "monthly": ... elif subscription_type == "weekly":
\* ... else: continue
KnownPlan(subscription_type) == subscription_type \in {"monthly", "weekly"}

\* end_date = payment_date + timedelta(days=...)
EndDate(user) ==
    FromIsoFormat(user.paymentDate).day
        + (IF user.subscriptionType = "monthly" THEN monthly_days ELSE weekly_days)

\* current_time <= end_date raises TypeError when end_date carries an offset:
\* current_time = datetime.utcnow() carries none
CompareRaises(found) ==
    \E k \in 1..Len(found) :
        /\ KnownPlan(found[k].subscriptionType)
        /\ FromIsoFormat(found[k].paymentDate).aware

\* get_active_subscriptions(city, country) at current_time over the users
\* collection; an exception gives []
GetActiveSubscriptions(collection, city, country, current_time) ==
    LET Watching(user) == user.cityFrom = city /\ user.countryFrom = country
        found == SelectSeq(collection, Watching)
        StillActive(user) ==
            /\ KnownPlan(user.subscriptionType)
            /\ current_time <= EndDate(user)
    IN  IF CompareRaises(found) THEN <<>> ELSE SelectSeq(found, StillActive)

MaxSubscribers == 2

\* the day of every payment of the collection
PaidDay == 1

\* the days at which the query is made: from before the payment to after
\* the end of the longest subscription
QueryDays == 0..(PaidDay + monthly_days + 1)

Emails == <<"a@x", "b@x", "c@x", "d@x">>

Phones == <<"1", "2", "3", "4">>

\* the documents of the users collection but for their contacts
Subscriptions ==
    [cityFrom : 1..2,
     countryFrom : {"France", "Spain"},
     subscriptionType : {"weekly", "monthly", "yearly"},
     paymentDate : [day : {PaidDay}, suffix : {"", "Z"}]] \
        {u \in [cityFrom : 1..2,
                countryFrom : {"France", "Spain"},
                subscriptionType : {"weekly", "monthly", "yearly"},
                paymentDate : [day : {PaidDay}, suffix : {"", "Z"}]] :
            u.cityFrom = 2 /\ u.countryFrom = "Spain"}

UserDoc(subscription, k) ==
    [email |-> Emails[k], phone |-> Phones[k], cityFrom |-> subscription.cityFrom,
     countryFrom |-> subscription.countryFrom,
     subscriptionType |-> subscription.subscriptionType,
     paymentDate |-> subscription.paymentDate]

Collections ==
    {[k \in 1..MaxSubscribers |-> UserDoc(f[k], k)] :
        f \in [1..MaxSubscribers -> Subscriptions]}

\* A change of France in city 1 is to be notified.
InitSubs ==
    /\ monitor = InitMonitor
    /\ all_cities = <<1>>
    /\ store = InitStore(1)
    /\ users = InitUsers(1)
    /\ open_sessions = {}
    /\ page = <<HighReading>>
    /\ task = [t \in Tasks |-> IdleLocals("idle")]
    /\ now = 0
    /\ ticks_left = 0
    /\ faults_left = 0
    /\ sent = <<>>
    /\ subs_in \in [users : Collections, city : {1}, country : {"France"},
                    current_time : QueryDays]
    /\ subs_out = [pc |-> "query", users |-> <<>>]
    /\ calls = NoCalls
    /\ detect_in = NoDetect
    /\ detect_out = NotReturned

\* active_users = await self.mongodb.get_active_subscriptions(...)
ActiveSubscriptionsDone ==
    /\ subs_out.pc = "query"
    /\ subs_out' = [pc |-> "notify",
                    users |-> GetActiveSubscriptions(subs_in.users, subs_in.city,
                                                     subs_in.country,
                                                     subs_in.current_time)]
    /\ UNCHANGED <<monitor, all_cities, store, users, open_sessions, page, task,
                   now, ticks_left, faults_left, sent, subs_in, calls, detect_in,
                   detect_out>>

\* the rest of the loop body for the change: without active users,
\* continue; else the NotificationData is built and every active user is
\* notified; an exception is caught and logged
ChangeNotified ==
    /\ subs_out.pc = "notify"
    /\ subs_out' = [subs_out EXCEPT !.pc = "done"]
    /\ sent' = IF subs_out.users = <<>> \/ ConstructorRaises(NotifyKeywords)
               THEN sent
               ELSE sent \o NotifyEach(subs_in.city, subs_in.country,
                                       subs_out.users, Len(subs_out.users))
    /\ UNCHANGED <<monitor, all_cities, store, users, open_sessions, page, task,
                   now, ticks_left, faults_left, subs_in, calls, detect_in,
                   detect_out>>

NextSubs == ActiveSubscriptionsDone \/ ChangeNotified

SpecSubs == InitSubs /\ [][NextSubs]_vars

\* ------------------------------------------------------------------------
\* setup_crawler and cleanup_crawler called on their own by callers that
\* call them in any order and at any time (SpecSession)
\* ------------------------------------------------------------------------

MaxCallers == 2

MaxCalls == 4

SessionFaults == 2

Callers == 1..MaxCallers

\* A caller: the function it called last and the number of that call, where
\* the call is suspended, what it returned, the crawler it is closing, and
\* whether it awaited the engine.
IdleCaller ==
    [op |-> "none", call |-> 0, pc |-> "idle", result |-> "none",
     ref |-> NoSession, awaited |-> FALSE]

InitSession ==
    /\ monitor = InitMonitor
    /\ all_cities = <<1>>
    /\ store = InitStore(1)
    /\ users = InitUsers(1)
    /\ open_sessions = {}
    /\ page = <<HighReading>>
    /\ task = [t \in Tasks |-> IdleLocals("idle")]
    /\ now = 0
    /\ ticks_left = 0
    /\ faults_left = SessionFaults
    /\ sent = <<>>
    /\ subs_in = NoQuery
    /\ subs_out = NoUsers
    /\ calls = [left |-> MaxCalls, by |-> [c \in Callers |-> IdleCaller]]
    /\ detect_in = NoDetect
    /\ detect_out = NotReturned

sessionEnv == <<all_cities, store, users, page, task, now, ticks_left, sent,
                subs_in, subs_out, detect_in, detect_out>>

\* caller c goes on as `caller`; one more call has been made if `made`
Called(c, caller, made) ==
    calls' = [left |-> IF made THEN calls.left - 1 ELSE calls.left,
              by |-> [calls.by EXCEPT
                         ![c] = IF made THEN [caller EXCEPT !.call = calls.left]
                                ELSE caller]]

\* Variant: setup_crawler does not look at the crawler it has.
AlreadyReady_never(m) == m.crawler # m.crawler

\* if self.crawler is not None: return True
AlreadyReady(m) == m.crawler # NoSession

\* setup_crawler() up to its return or to its await of __aenter__
SetupCall(c) ==
    /\ calls.by[c].pc = "idle"
    /\ calls.left > 0
    /\ IF AlreadyReady(monitor)
       THEN /\ Called(c, [IdleCaller EXCEPT !.op = "setup", !.result = "True"], TRUE)
            /\ UNCHANGED monitor
       ELSE IF monitor.initializing_crawler
       THEN /\ Called(c, [IdleCaller EXCEPT !.op = "setup", !.result = "False"], TRUE)
            /\ UNCHANGED monitor
       ELSE /\ Called(c, [IdleCaller EXCEPT !.op = "setup", !.pc = "aenter"], TRUE)
            /\ monitor' = [monitor EXCEPT !.initializing_crawler = TRUE]
    /\ UNCHANGED <<open_sessions, faults_left>>
    /\ UNCHANGED sessionEnv

\* asyncio.wait_for(AsyncWebCrawler(...).__aenter__(), timeout=30) is over:
\* a crawler, or a timeout or an exception
SetupOpenDone(c) ==
    /\ calls.by[c].pc = "aenter"
    /\ \/ /\ NoFault
          /\ Opened(FreshSession)
          /\ monitor' = CrawlerReady(monitor, FreshSession)
          /\ Called(c, [calls.by[c] EXCEPT !.pc = "idle", !.result = "True",
                                           !.awaited = TRUE], FALSE)
       \/ /\ Fault
          /\ UNCHANGED open_sessions
          /\ monitor' = CrawlerCleared(monitor)
          /\ Called(c, [calls.by[c] EXCEPT !.pc = "idle", !.result = "False",
                                           !.awaited = TRUE], FALSE)
    /\ UNCHANGED sessionEnv

\* Variant: cleanup_crawler closes whatever self.crawler is.
CleanupNeeded_always(m) == m.crawler = m.crawler

\* if self.crawler is not None:
CleanupNeeded(m) == m.crawler # NoSession

\* cleanup_crawler() up to its return or to its await of __aexit__
CleanupCall(c) ==
    /\ calls.by[c].pc = "idle"
    /\ calls.left > 0
    /\ IF CleanupNeeded(monitor)
       THEN Called(c, [IdleCaller EXCEPT !.op = "cleanup", !.pc = "aexit",
                                         !.ref = monitor.crawler], TRUE)
       ELSE Called(c, [IdleCaller EXCEPT !.op = "cleanup", !.result = "None"], TRUE)
    /\ UNCHANGED <<monitor, open_sessions, faults_left>>
    /\ UNCHANGED sessionEnv

\* await self.crawler.__aexit__(None, None, None) is over: it returned, or
\* it raised and the exception was caught (as was that of browser.close());
\* finally: self.crawler = None; self._initializing_crawler = False
CleanupCloseDone(c) ==
    /\ calls.by[c].pc = "aexit"
    /\ NoFault \/ Fault
    /\ open_sessions' = open_sessions \ {calls.by[c].ref}
    /\ monitor' = CrawlerCleared(monitor)
    /\ Called(c, [calls.by[c] EXCEPT !.pc = "idle", !.result = "None",
                                     !.ref = NoSession, !.awaited = TRUE], FALSE)
    /\ UNCHANGED sessionEnv

NextSession ==
    \E c \in Callers :
        \/ SetupCall(c)
        \/ SetupOpenDone(c)
        \/ CleanupCall(c)
        \/ CleanupCloseDone(c)

SpecSession == InitSession /\ [][NextSession]_vars

\* ------------------------------------------------------------------------
\* The crawler pipeline: crawl_cities with detect_slot_changes (SpecCrawl).
\* Task 0 is the crawl_cities coroutine.
\* ------------------------------------------------------------------------

\* Failures injected in one behaviour of the pipeline.
CrawlFaults == 1

\* Slot strings of the pages and documents of the pipeline.
CrawlValues == {NoSlot, <<"0">>, <<"2">>}

\* Variant: the month loop ends at the first change of the country.
RECURSIVE SlotsAvailable_first(_, _, _, _)
SlotsAvailable_first(country, current_slots, previous_slots, k) ==
    IF k > Len(current_slots) THEN <<>>
    ELSE IF /\ SlotGet(previous_slots, current_slots[k].month) \in {NoSlot, <<"0">>}
            /\ current_slots[k].value \notin {NoSlot, <<"0">>}
    THEN <<[country |-> country, change_type |-> "slots_available",
            month |-> current_slots[k].month,
            current_slots |-> current_slots[k].value,
            previous_slots |-> SlotGet(previous_slots, current_slots[k].month),
            slots |-> <<>>]>>
    ELSE SlotsAvailable_first(country, current_slots, previous_slots, k + 1)

\* for month, current_slots in current_country["slots"].items(): a change
\* for every month whose previous value is None or "0" and whose current
\* value is neither
RECURSIVE SlotsAvailable(_, _, _, _)
SlotsAvailable(country, current_slots, previous_slots, k) ==
    IF k > Len(current_slots) THEN <<>>
    ELSE LET month == current_slots[k].month
             previous == SlotGet(previous_slots, month)
             rest == SlotsAvailable(country, current_slots, previous_slots, k + 1)
         IN  IF previous \in {NoSlot, <<"0">>}
                /\ current_slots[k].value \notin {NoSlot, <<"0">>}
             THEN <<[country |-> country, change_type |-> "slots_available",
                     month |-> month, current_slots |-> current_slots[k].value,
                     previous_slots |-> previous, slots |-> <<>>]>> \o rest
             ELSE rest

\* {c["country"]: c for c in ...}.get(country_name): the last entry of the
\* list with that name, None (<<>>) without one
CountryGet(countries, country_name) ==
    LET at == {k \in 1..Len(countries) : countries[k].country = country_name}
    IN  IF at = {} THEN <<>>
        ELSE <<countries[CHOOSE k \in at : \A m \in at : m <= k]>>

\* for country_name, current_country in current_countries.items(), from
\* position k of the current list.  A change of a month carries the month's
\* strings in current_slots and previous_slots; a new_country change carries
\* the country's slot map, kept here as slots.
RECURSIVE SlotChanges(_, _, _)
SlotChanges(previous_countries, countries, k) ==
    IF k > Len(countries) THEN <<>>
    ELSE LET country_name == countries[k].country
             current_country == CountryGet(countries, country_name)[1]
             previous_country == CountryGet(previous_countries, country_name)
             rest == SlotChanges(previous_countries, countries, k + 1)
         IN  IF \E m \in 1..(k - 1) : countries[m].country = country_name
             THEN rest
             ELSE IF previous_country = <<>>
             THEN IF \E m \in 1..Len(current_country.slots) :
                        current_country.slots[m].value # NoSlot
                  THEN <<[country |-> country_name, change_type |-> "new_country",
                          month |-> NoMonth, current_slots |-> NoSlot,
                          previous_slots |-> NoSlot,
                          slots |-> current_country.slots]>> \o rest
                  ELSE rest
             ELSE SlotsAvailable(country_name, current_country.slots,
                                 previous_country[1].slots, 1) \o rest

\* detect_slot_changes(city, current_data) with previous_data the document
\* get_last_appointment_data returned
DetectSlotChanges(previous_data, current_data) ==
    IF ~previous_data.exists THEN <<>>
    ELSE SlotChanges(previous_data.countries, current_data.countries, 1)

\* the slot values of a document are among CrawlValues
CrawlDoc(doc) ==
    \A k \in 1..Len(doc.countries) :
        \A m \in 1..Len(doc.countries[k].slots) :
            doc.countries[k].slots[m].value \in CrawlValues

\* One city; the collection holds no document for it or one of an earlier
\* crawl; the page shows one or more countries.
InitCrawl ==
    /\ monitor = InitMonitor
    /\ all_cities = <<1>>
    /\ store \in [1..1 -> {d \in PreviousDocs : CrawlDoc(d)}]
    /\ users = InitUsers(1)
    /\ open_sessions = {}
    /\ page \in [1..1 -> {[countries |-> d.countries, temporarily_unavailable |-> <<>>] :
                             d \in {c \in CurrentDocs : CrawlDoc(c)}}]
    /\ task = [t \in Tasks |-> IdleLocals(IF t = 0 THEN "crawl_extract" ELSE "idle")]
    /\ now = 0
    /\ ticks_left = 0
    /\ faults_left = CrawlFaults
    /\ sent = <<>>
    /\ subs_in = NoQuery
    /\ subs_out = NoUsers
    /\ calls = NoCalls
    /\ detect_in = NoDetect
    /\ detect_out = NotReturned

\* for city in self.CITIES: the next city, or the end of the loop
CrawlCity(j) ==
    IF j > Len(all_cities) THEN IdleLocals("done")
    ELSE [IdleLocals("crawl_extract") EXCEPT !.j = j]

\* page.goto and extract_city_data are over: city_data, or None (or an
\* exception, caught in the loop body) and the city is left
CrawlExtractDone ==
    /\ task[0].pc = "crawl_extract"
    /\ LET j == IF task[0].j = 0 THEN 1 ELSE task[0].j
       IN  \/ /\ NoFault
              /\ task' = [task EXCEPT ![0] =
                            [@ EXCEPT !.pc = "crawl_get_last", !.j = j,
                                      !.current_data = ReadingData(page[all_cities[j]])]]
           \/ /\ Fault
              /\ task' = [task EXCEPT ![0] = CrawlCity(j + 1)]
    /\ UNCHANGED <<monitor, store, open_sessions, now>>
    /\ UNCHANGED envVars

\* process_city_changes: detect_slot_changes is over.  get_last_appointment_data
\* returned the stored document, or None after an exception.
\* notify_users_of_changes follows if there are changes, the save if not.
CrawlDetected(previous_data, outcome) ==
    LET changes == DetectSlotChanges(previous_data, task[0].current_data)
    IN  task' = [task EXCEPT ![0] =
                    [@ EXCEPT !.changes = changes, !.outcome = outcome,
                              !.stored_before = store[CityOf(task[0])],
                              !.pc = IF changes # <<>> THEN "crawl_notify"
                                     ELSE "crawl_save"]]

CrawlGetLastDone ==
    /\ task[0].pc = "crawl_get_last"
    /\ \/ /\ NoFault
          /\ CrawlDetected(store[CityOf(task[0])], "read")
       \/ /\ Fault
          /\ CrawlDetected(NoDoc, "read_failed")
    /\ UNCHANGED <<monitor, store, open_sessions, now>>
    /\ UNCHANGED envVars

\* notify_users_of_changes is over (it catches its exceptions); the save of
\* city_data follows
CrawlNotifyDone ==
    /\ task[0].pc = "crawl_notify"
    /\ task' = [task EXCEPT ![0].pc = "crawl_save"]
    /\ UNCHANGED <<monitor, store, open_sessions, now, faults_left>>
    /\ UNCHANGED envVars

\* save_appointment_data(city, city_data) is over: the next city
CrawlSaveDone ==
    /\ task[0].pc = "crawl_save"
    /\ Saved(CityOf(task[0]), task[0].current_data)
    /\ task' = [task EXCEPT ![0] = CrawlCity(@.j + 1)]
    /\ UNCHANGED <<monitor, open_sessions, now>>
    /\ UNCHANGED envVars

NextCrawl ==
    \/ CrawlExtractDone
    \/ CrawlGetLastDone
    \/ CrawlNotifyDone
    \/ CrawlSaveDone

SpecCrawl == InitCrawl /\ [][NextCrawl]_vars

\* ------------------------------------------------------------------------
\* CrawlerScheduler: run_crawler_sync and run_crawler_task (SpecSched).
\* monitor.crawler is self.crawler of the scheduler, task t is the t-th
\* task run_crawler_sync created; its locals record the crawler it crawled
\* with (ref), the initialize_crawler calls it made (setups) and how the
\* iteration went (outcome).  A task keeps its locals when it is done.
\* ------------------------------------------------------------------------

\* Failures injected in one behaviour of the scheduler.
SchedFaults == 2

InitSched ==
    /\ monitor = InitMonitor
    /\ all_cities = <<1>>
    /\ store = InitStore(1)
    /\ users = InitUsers(1)
    /\ open_sessions = {}
    /\ page = <<HighReading>>
    /\ task = [t \in Tasks |-> IdleLocals("idle")]
    /\ now = 0
    /\ ticks_left = MaxTicks
    /\ faults_left = SchedFaults
    /\ sent = <<>>
    /\ subs_in = NoQuery
    /\ subs_out = NoUsers
    /\ calls = NoCalls
    /\ detect_in = NoDetect
    /\ detect_out = NotReturned

\* self.current_task and not self.current_task.done()
TaskPending == \E t \in Tasks : task[t].pc \notin {"idle", "done"}

\* Variant: cleanup_crawler leaves the reference as it is.
SchedCleaned_kept(m) == m

\* cleanup_crawler after teardown(): self.crawler = None
SchedCleaned(m) == [m EXCEPT !.crawler = NoSession]

\* except Exception: await self.cleanup_crawler(), with the iteration failed
\* in the given way: teardown is awaited if there is a crawler object, the
\* pause of the finally block follows if there is none
SchedFailed(m, l, outcome) ==
    IF m.crawler # NoSession
    THEN Suspend(m, [l EXCEPT !.outcome = outcome], "sched_teardown")
    ELSE Suspend(m, [l EXCEPT !.outcome = outcome], "sched_sleep")

\* run_crawler_sync: the call of start() and the calls of the scheduler
\* thread come one after the other, each when the one before has returned
\* from run_until_complete.  A call that finds the task pending returns;
\* otherwise the new task runs to its first suspension: with no crawler it
\* constructs one (or the constructor raises) and awaits its setup(), with
\* a crawler it awaits crawl_cities().
RunCrawlerSync ==
    /\ task[0].pc = "idle" \/ ticks_left > 0
    /\ \A t \in Tasks : task[t].pc \in {"idle", "done"}
    /\ ticks_left' = IF task[0].pc = "idle" THEN ticks_left ELSE ticks_left - 1
    /\ IF TaskPending
       THEN UNCHANGED <<monitor, task, faults_left>>
       ELSE IF monitor.crawler # NoSession
       THEN /\ NoFault
            /\ Apply(NewTask, Suspend(monitor, [IdleLocals("idle") EXCEPT
                                                  !.ref = monitor.crawler],
                                      "sched_crawl"))
       ELSE \/ /\ NoFault
               /\ Apply(NewTask, Suspend([monitor EXCEPT !.crawler = FreshSession],
                                         [IdleLocals("idle") EXCEPT !.setups = 1],
                                         "sched_setup"))
            \/ /\ Fault
               /\ Apply(NewTask, SchedFailed(monitor,
                                             [IdleLocals("idle") EXCEPT !.setups = 1],
                                             "init_failed"))
    /\ UNCHANGED <<all_cities, store, users, open_sessions, page, now, sent,
                   harnessVars>>

\* initialize_crawler: self.crawler.setup() is over.  It returned and
\* crawl_cities() is awaited, or it raised and the handler cleans up.
SchedSetupDone(t) ==
    /\ task[t].pc = "sched_setup"
    /\ \/ /\ NoFault
          /\ Opened(monitor.crawler)
          /\ Apply(t, Suspend(monitor, [task[t] EXCEPT !.ref = monitor.crawler],
                              "sched_crawl"))
       \/ /\ Fault
          /\ UNCHANGED open_sessions
          /\ Apply(t, SchedFailed(monitor, task[t], "init_failed"))
    /\ UNCHANGED <<store, now>>
    /\ UNCHANGED envVars

\* crawl_cities() is over: it returned, or it raised and the handler cleans up
SchedCrawlDone(t) ==
    /\ task[t].pc = "sched_crawl"
    /\ \/ /\ NoFault
          /\ Apply(t, Suspend(monitor, [task[t] EXCEPT !.outcome = "ok"],
                              "sched_sleep"))
       \/ /\ Fault
          /\ Apply(t, SchedFailed(monitor, task[t], "crawl_failed"))
    /\ UNCHANGED <<store, open_sessions, now>>
    /\ UNCHANGED envVars

\* cleanup_crawler: teardown(), which catches its exceptions, is over
SchedTeardownDone(t) ==
    /\ task[t].pc = "sched_teardown"
    /\ open_sessions' = open_sessions \ {monitor.crawler}
    /\ Apply(t, Suspend(SchedCleaned(monitor), task[t], "sched_sleep"))
    /\ UNCHANGED <<store, now, faults_left>>
    /\ UNCHANGED envVars

\* finally: asyncio.sleep(1) is over and the task is done
SchedSleepDone(t) ==
    /\ task[t].pc = "sched_sleep"
    /\ Apply(t, Suspend(monitor, task[t], "done"))
    /\ UNCHANGED <<store, open_sessions, now, faults_left>>
    /\ UNCHANGED envVars

NextSched ==
    \/ RunCrawlerSync
    \/ \E t \in Tasks :
          \/ SchedSetupDone(t)
          \/ SchedCrawlDone(t)
          \/ SchedTeardownDone(t)
          \/ SchedSleepDone(t)

SpecSched == InitSched /\ [][NextSched]_vars

\* ------------------------------------------------------------------------
\* Properties of detect_changes (SpecDetect)
\* ------------------------------------------------------------------------

Returned == detect_out.returned

Current == detect_in.current_data.countries

Previous == detect_in.previous_data

Events == detect_out.changes

\* the number of events emitted for a country
EventsFor(country) ==
    Cardinality({k \in 1..Len(Events) : Events[k].country = country})

EventFor(country) ==
    Events[CHOOSE k \in 1..Len(Events) : Events[k].country = country]

\* parse(None) = 0, parse("0") = 0, parse("n") = parse("n+") = n
Parse(value) ==
    IF value \in {NoSlot, <<"0">>} THEN 0
    ELSE ToInt(SelectSeq(value, LAMBDA ch : ch # "+"))

\* a slot value that is neither absent nor "0"
Positive(value) == value \notin {NoSlot, <<"0">>}

\* the country has at least one slot value that is neither absent nor "0"
HasOpenSlot(country_data) ==
    \E m \in 1..Len(country_data.slots) : Positive(country_data.slots[m].value)

InPrevious(country) ==
    \E k \in 1..Len(Previous.countries) : Previous.countries[k].country = country

PreviousSlots(country) ==
    Previous.countries[CHOOSE k \in 1..Len(Previous.countries) :
                          Previous.countries[k].country = country].slots

\* the previous value stored for the month at position m of a current slot map
PreviousAt(country_data, m) ==
    LET month == country_data.slots[m].month
        slots == PreviousSlots(country_data.country)
    IN  IF \E k \in 1..Len(slots) : slots[k].month = month
        THEN slots[CHOOSE k \in 1..Len(slots) : slots[k].month = month].value
        ELSE NoSlot

\* the count of month m rose: parse(current) > parse(previous)
Rose(country_data, m) ==
    Parse(country_data.slots[m].value) > Parse(PreviousAt(country_data, m))

\* one event per country with an open slot, none for another, all of one kind
NewTargetEvents(kind) ==
    /\ \A k \in 1..Len(Current) :
          EventsFor(Current[k].country) = IF HasOpenSlot(Current[k]) THEN 1 ELSE 0
    /\ Len(Events) = Cardinality({k \in 1..Len(Current) : HasOpenSlot(Current[k])})
    /\ \A k \in 1..Len(Events) : Events[k].type = kind

\* C6 as stated: for every snapshot S, detect(target, S, previous = None)
\* emits exactly one event for each country of S with at least one slot value
\* that is neither absent nor "0", no event for any other country, and every
\* event has kind new_country.
C6_stated == Returned /\ ~Previous.exists => NewTargetEvents("new_country")

\* C6 amended: for every snapshot S, detect(target, S, previous = None)
\* emits exactly one event for each country of S with at least one slot value
\* that is neither absent nor "0", no event for any other country, and every
\* event has kind new_availability.
C6_new_target == Returned /\ ~Previous.exists => NewTargetEvents("new_availability")

\* a new target with one country that has an open slot and one that has none
C6_witness ==
    /\ Returned
    /\ ~Previous.exists
    /\ Len(Current) = 2
    /\ \E k \in 1..2 : HasOpenSlot(Current[k])
    /\ \E k \in 1..2 : ~HasOpenSlot(Current[k]) /\ Current[k].slots[1].value = <<"0">>
    /\ Len(Events) = 1

\* C7: for a country present in both the previous and the current snapshot
\* detect emits at most one event; if some tracked month has
\* parse(current) > parse(previous), it emits exactly one event, of kind
\* increased_availability, for the first such month in the order of the
\* tracked months.
C7_first_rise ==
    Returned /\ Previous.exists =>
        \A k \in 1..Len(Current) :
            InPrevious(Current[k].country) =>
                LET country == Current[k].country
                    rising == {m \in 1..Len(Current[k].slots) : Rose(Current[k], m)}
                IN  /\ EventsFor(country) <= 1
                    /\ rising # {} =>
                          /\ EventsFor(country) = 1
                          /\ EventFor(country).type = "increased_availability"
                          /\ EventFor(country).month =
                                Current[k].slots[CHOOSE m \in rising :
                                                   \A n \in rising : m <= n].month

\* prev {MAY: "2", JUN: "0"}, cur {MAY: "2", JUN: "3", JUL: "5+"}: one event, for JUN
C7_witness ==
    /\ Returned
    /\ Previous.exists
    /\ Len(Current) = 1
    /\ InPrevious("France")
    /\ PreviousSlots("France") = SlotMap(<<<<"2">>, <<"0">>, NoSlot>>)
    /\ Current[1].slots = SlotMap(<<<<"2">>, <<"3">>, <<"5", "+">>>>)
    /\ Len(Events) = 1
    /\ Events[1].month = "JUN"

\* C8: for every pair (prev, cur) of snapshots whose countries carry
\* identical slot maps, detect emits no events.
C8_identical ==
    /\ Returned
    /\ Previous.exists
    /\ \A k \in 1..Len(Current) :
          /\ InPrevious(Current[k].country)
          /\ PreviousSlots(Current[k].country) = Current[k].slots
    => Events = <<>>

\* two countries with open slots, stored and read with the same slot maps
C8_witness ==
    /\ Returned
    /\ Previous.exists
    /\ Len(Current) = 2
    /\ Previous.countries = Current
    /\ Current[1].slots = SlotMap(<<<<"5", "+">>, <<"0">>, <<"3">>>>)
    /\ HasOpenSlot(Current[2])
    /\ Events = <<>>

\* the month at position m of a country went from absent (None) to a
\* positive count
FromAbsent(country_data, m) ==
    /\ PreviousAt(country_data, m) = NoSlot
    /\ Positive(country_data.slots[m].value)

\* exactly one event for the country: increased_availability for the month
\* at position m, from the stored previous value (None) to the current slot
\* string, unchanged
OneEventFromAbsent(country_data, m) ==
    /\ EventsFor(country_data.country) = 1
    /\ EventFor(country_data.country).type = "increased_availability"
    /\ EventFor(country_data.country).month = country_data.slots[m].month
    /\ EventFor(country_data.country).previous_slots = NoSlot
    /\ EventFor(country_data.country).new_slots = country_data.slots[m].value

\* C9 as stated: when a month's previous slot value is absent (None) and its
\* current value is a positive count such as "5+", detect emits exactly one
\* event for that country, of kind increased_availability for that month,
\* with the stored previous value (None) as previous value and the current
\* slot string unchanged as new value.
C9_stated ==
    Returned /\ Previous.exists =>
        \A k \in 1..Len(Current) :
            InPrevious(Current[k].country) =>
                \A m \in 1..Len(Current[k].slots) :
                    FromAbsent(Current[k], m) => OneEventFromAbsent(Current[k], m)

\* C9 amended: when a month's previous slot value is absent (None), its
\* current value is a positive count such as "5+", and no earlier tracked
\* month of that country shows an increase, detect emits exactly one event
\* for that country, of kind increased_availability for that month, with the
\* stored previous value (None) as previous value and the current slot
\* string unchanged as new value.
C9_from_absent ==
    Returned /\ Previous.exists =>
        \A k \in 1..Len(Current) :
            InPrevious(Current[k].country) =>
                \A m \in 1..Len(Current[k].slots) :
                    /\ FromAbsent(Current[k], m)
                    /\ \A n \in 1..(m - 1) : ~Rose(Current[k], n)
                    => OneEventFromAbsent(Current[k], m)

\* prev {MAY: None}, cur {MAY: "5+"}: one event for MAY, from None to "5+"
C9_witness ==
    /\ Returned
    /\ Previous.exists
    /\ InPrevious("France")
    /\ PreviousSlots("France")[1].value = NoSlot
    /\ Current[1].slots[1].value = <<"5", "+">>
    /\ EventsFor("France") = 1
    /\ EventFor("France").month = "MAY"
    /\ EventFor("France").new_slots = <<"5", "+">>

\* ------------------------------------------------------------------------
\* Properties of the cycle lock (Spec)
\* ------------------------------------------------------------------------

\* the step is an invocation by the scheduler, of the task Invoked
Invocation == ticks_left' = ticks_left - 1

Invoked == CHOOSE t \in Tasks : task[t].pc = "idle" /\ task'[t].pc # "idle"

LockHeld == monitor.monitoring_in_progress

\* seconds between the holder's start and the invocation
Elapsed == now' - monitor.last_monitoring_start

\* the invocation takes the lock and enters the batch loop
Acquires ==
    /\ monitor'.monitoring_in_progress
    /\ monitor'.last_monitoring_start = now'
    /\ task'[Invoked].pc \in {"batch_cleanup", "batch_setup"}
    /\ task'[Invoked].i = 1

\* only an invocation takes the lock
LockStaysFree ==
    ~Invocation /\ task[0].pc # "start" /\ ~LockHeld => ~monitor'.monitoring_in_progress

\* C1 as stated: at most one monitoring cycle is executing at any time: no
\* two invocations are between their lock acquisition and their termination,
\* also when one arrives after a stale force-reset while the abandoned cycle
\* is still suspended.
C1_single_cycle == Cardinality({t \in Tasks : InCycle(t)}) <= 1

\* C2: an invocation while the lock is held and the time since the holder's
\* start does not exceed the staleness threshold is a no-op: it ends at once
\* without entering the batch loop and leaves the lock flag, the start
\* timestamp, the session, the store and every other task as they are.
C2_skip ==
    [][Invocation /\ LockHeld /\ Elapsed <= StaleThreshold =>
          /\ monitor' = monitor
          /\ task' = [task EXCEPT ![Invoked] = IdleLocals("done")]
          /\ store' = store
          /\ open_sessions' = open_sessions]_vars

\* the latest invocation came exactly at the threshold and has ended, the
\* holder is still in its cycle
C2_witness ==
    \E t \in Tasks \ {0} :
        /\ task[t].pc = "done"
        /\ \A u \in Tasks : u > t => task[u].pc = "idle"
        /\ LockHeld
        /\ now - monitor.last_monitoring_start = StaleThreshold
        /\ \E u \in Tasks : u < t /\ InCycle(u)

\* C3: an invocation while the lock is held and the time since the holder's
\* start exceeds the staleness threshold clears the lock and checks no
\* target; when it returns the session is absent; the lock then stays free
\* until the next invocation, which takes it and enters the batch loop.
C3_stale ==
    [][/\ Invocation /\ LockHeld /\ Elapsed > StaleThreshold =>
             /\ ~monitor'.monitoring_in_progress
             /\ task'[Invoked].pc \in {"stale_cleanup", "done"}
             /\ task'[Invoked].pc = "done" => monitor'.crawler = NoSession
             /\ store' = store
       /\ \A t \in Tasks :
             task[t].pc = "stale_cleanup" /\ task'[t].pc # "stale_cleanup" =>
                 /\ task'[t].pc = "done"
                 /\ monitor'.crawler = NoSession
                 /\ task[t].ref \notin open_sessions'
                 /\ store' = store
       /\ LockStaysFree
       /\ Invocation /\ ~LockHeld => Acquires]_vars

\* the invocation before the latest one reset the lock of a cycle that is
\* still suspended, and the latest one has taken the lock
C3_witness ==
    \E t \in Tasks :
        /\ t >= 2
        /\ InCycle(t)
        /\ LockHeld
        /\ monitor.last_monitoring_start = now
        /\ task[t - 1].pc = "done"
        /\ \E u \in Tasks : u < t - 1 /\ InCycle(u)

\* C4: a cycle that took the lock releases it in the step that ends it,
\* whatever happened in it (normal end, skipped batch, failed target,
\* exception out of the batch loop); the lock then stays free until the next
\* invocation, which takes it and enters the batch loop.
C4_release ==
    [][/\ \A t \in Tasks :
             InCycle(t) /\ ~InCycle(t)' =>
                 /\ task'[t].pc = "done"
                 /\ ~monitor'.monitoring_in_progress
       /\ LockStaysFree
       /\ Invocation /\ ~LockHeld => Acquires]_vars

\* the initial cycle met a failure that left an error document, it has
\* ended, and the first scheduled invocation has taken the lock
C4_witness ==
    /\ task[0].pc = "done"
    /\ ticks_left = MaxTicks - 1
    /\ faults_left < MaxFaults
    /\ \E c \in 1..Len(all_cities) : store[c].has_error
    /\ InCycle(1)
    /\ LockHeld

\* some country of both documents has a month whose count rose
Increase(previous_data, current_data) ==
    \E k \in 1..Len(current_data.countries) :
    \E p \in 1..Len(previous_data.countries) :
        /\ previous_data.countries[p].country = current_data.countries[k].country
        /\ \E m \in 1..tracked_count :
              Parse(current_data.countries[k].slots[m].value)
                 > Parse(previous_data.countries[p].slots[m].value)

\* C5 as stated: for a target whose check succeeded, the changes are detected
\* against the snapshot the store held before this cycle's snapshot was
\* persisted: when the new snapshot shows an increase over that snapshot,
\* change events are produced in this cycle.
C5_detect_before_persist ==
    \A t \in Tasks :
        /\ task[t].pc \in {"city_get_users", "city_err_save", "city_sleep"}
        /\ task[t].current_data.exists
        /\ ~task[t].current_data.has_error
        /\ task[t].stored_before.exists
        /\ Increase(task[t].stored_before, task[t].current_data)
        => task[t].changes # <<>>

\* ------------------------------------------------------------------------
\* Properties of the batch loop (SpecBatch)
\* ------------------------------------------------------------------------

\* C10: when the set-up of the session fails at the start of a batch, the
\* batch is skipped: none of its cities is entered or saved and no second
\* set-up is tried for it; after the pause the loop goes on to the next
\* batch and calls the set-up for it (or ends the cycle after the last one).
C10_skip_batch ==
    [][\A t \in Tasks :
          /\ task[t].pc = "batch_setup" /\ task'[t].pc # "batch_setup"
                /\ monitor'.crawler = NoSession =>
                /\ task'[t].pc = "batch_skip_sleep"
                /\ task'[t].i = task[t].i
                /\ task'[t].j = 0
                /\ store' = store
          /\ task[t].pc = "batch_skip_sleep" /\ task'[t].pc # "batch_skip_sleep" =>
                /\ store' = store
                /\ open_sessions' = open_sessions
                /\ IF task[t].i + batch_size <= Len(all_cities)
                   THEN /\ task'[t].pc = "batch_setup"
                        /\ task'[t].i = task[t].i + batch_size
                   ELSE task'[t].pc = "done"]_vars

\* the first batch was skipped, none of its cities was saved, and the first
\* city of the second batch is being read
C10_witness ==
    /\ Len(all_cities) > batch_size
    /\ task[0].pc = "x_arun"
    /\ task[0].i = 1 + batch_size
    /\ faults_left = BatchFaults - 1
    /\ \A c \in 1..batch_size : store[c] = InitStore(Len(all_cities))[c]

\* the points at which a cycle is suspended inside the body of the loop over
\* the cities of a batch
CityPcs ==
    {"city_setup", "city_setup_save", "x_setup", "x_arun", "x_sleep", "x_cleanup",
     "city_save", "city_get_last", "city_get_users", "city_err_save", "city_sleep"}

\* the step of task t stays in its city or goes on to the next city of the
\* batch, or to the end of the batch after the last one
StaysOrAdvances(t) ==
    /\ task'[t].i = task[t].i
    /\ \/ /\ task'[t].pc \in CityPcs
          /\ task'[t].j = task[t].j
       \/ /\ task[t].j < BatchLast(task[t].i)
          /\ task'[t].pc \in CityPcs
          /\ task'[t].j = task[t].j + 1
       \/ /\ task[t].j = BatchLast(task[t].i)
          /\ task'[t].pc \in {"batch_end_cleanup", "batch_end_sleep"}
          /\ task'[t].j = task[t].j + 1

\* the step of task t out of the pause after a batch starts the next batch,
\* or ends the cycle after the last batch
StartsNextBatch(t) ==
    IF task[t].i + batch_size <= Len(all_cities)
    THEN /\ task'[t].pc = "batch_setup"
         /\ task'[t].i = task[t].i + batch_size
    ELSE task'[t].pc = "done"

\* a city of the batch failed: its document carries an error
FailedCity(c) == store[c].exists /\ store[c].has_error

\* C11: a failure on one city of a batch (error data from the extraction, a
\* failed set-up, an exception while detecting, notifying or saving) never
\* ends the batch or the cycle: every step taken inside the body of a city
\* stays in that city or goes on to the next city of the same batch (to the
\* end of the batch after its last city); the clean-up at the end of a batch
\* leads to the pause, and the pause, unless an exception leaves the batch
\* loop there, leads to the next batch.
C11_no_abort ==
    [][\A t \in Tasks :
          /\ task[t].pc \in CityPcs /\ task'[t] # task[t] => StaysOrAdvances(t)
          /\ task[t].pc = "batch_end_cleanup" /\ task'[t] # task[t] =>
                /\ task'[t].pc = "batch_end_sleep"
                /\ task'[t].i = task[t].i
          /\ task[t].pc = "batch_end_sleep" /\ task'[t] # task[t]
                /\ faults_left' = faults_left => StartsNextBatch(t)]_vars

\* the first city of the first batch failed with the exception of
\* notify_users, the second failed in its extraction, the third is being
\* read, and a city of the second batch will follow
C11_witness ==
    /\ Len(all_cities) > batch_size
    /\ task[0].pc = "x_arun"
    /\ task[0].i = 1
    /\ task[0].j = 3
    /\ FailedCity(1)
    /\ FailedCity(2)
    /\ sent = <<>>

\* ------------------------------------------------------------------------
\* Properties of the subscription window (SpecSubs)
\* ------------------------------------------------------------------------

Queried == subs_out.pc # "query"

\* the users of the collection that watch the city and country of the query
Watchers ==
    {k \in 1..Len(subs_in.users) :
        /\ subs_in.users[k].cityFrom = subs_in.city
        /\ subs_in.users[k].countryFrom = subs_in.country}

IsReturned(k) == \E r \in 1..Len(subs_out.users) : subs_out.users[r] = subs_in.users[k]

\* the length of the plan of a user, in days
Duration(user) ==
    IF user.subscriptionType = "weekly" THEN weekly_days ELSE monthly_days

\* start <= T < start + duration
InWindow(user, T) ==
    /\ user.paymentDate.day <= T
    /\ T < user.paymentDate.day + Duration(user)

\* C12 as stated: a subscriber with a weekly or monthly plan that started at
\* S and lasts D days is treated as active at T if and only if S <= T < S + D.
C12_window ==
    Queried =>
        \A k \in Watchers :
            subs_in.users[k].subscriptionType \in {"weekly", "monthly"}
                /\ subs_in.users[k].paymentDate.suffix = ""
                /\ (\A o \in Watchers : subs_in.users[o].paymentDate.suffix = "")
            => (IsReturned(k) <=> InWindow(subs_in.users[k], subs_in.current_time))

\* the sends asked for user k of the collection
SentTo(k) ==
    {n \in 1..Len(sent) : sent[n].to \in {subs_in.users[k].email,
                                          subs_in.users[k].phone}}

UnknownPlan(user) == user.subscriptionType \notin {"weekly", "monthly"}

DayOf(seconds) == seconds \div (24 * 60 * 60)

\* notify_users was called for the city of task t and has ended in the
\* exception that the city's handler catches
NotifyEnded(t) == task[t].pc = "city_err_save"

\* a send on the channel was asked for the user about the country of the city
Attempted(user, channel, city, country) ==
    \E n \in 1..Len(sent) :
        /\ sent[n].channel = channel
        /\ sent[n].to = (IF channel = "email" THEN user.email ELSE user.phone)
        /\ sent[n].city = city
        /\ sent[n].country = country

\* the user watches the country of the event and is active
Eligible(user, country) ==
    /\ user.countryFrom = country
    /\ ~UnknownPlan(user)
    /\ InWindow(user, DayOf(now))

\* C14 as stated: for every event (city, country) that notify_users was
\* called with, a delivery is attempted to a subscriber of the city if and
\* only if the subscriber watches the country and is active at that time.
C14_dispatch ==
    \A t \in Tasks :
        NotifyEnded(t) =>
            \A k \in 1..Len(task[t].changes) :
            \A u \in 1..Len(users[CityOf(task[t])]) :
                LET user == users[CityOf(task[t])][u]
                    country == task[t].changes[k].country
                IN  (\E channel \in {"email", "sms"} :
                        Attempted(user, channel, CityOf(task[t]), country))
                        <=> Eligible(user, country)

\* the sends asked on the channel for the user about the country of the city
Attempts(user, channel, city, country) ==
    {n \in 1..Len(sent) :
        /\ sent[n].channel = channel
        /\ sent[n].to = (IF channel = "email" THEN user.email ELSE user.phone)
        /\ sent[n].city = city
        /\ sent[n].country = country}

\* C15 as stated: for every event that notify_users was called with and
\* every active subscriber watching its city and country, each channel
\* (email, SMS) is attempted exactly once.
C15_each_channel_once ==
    \A t \in Tasks :
        NotifyEnded(t) =>
            \A k \in 1..Len(task[t].changes) :
            \A u \in 1..Len(users[CityOf(task[t])]) :
                LET user == users[CityOf(task[t])][u]
                    country == task[t].changes[k].country
                IN  Eligible(user, country) =>
                        \A channel \in {"email", "sms"} :
                            Cardinality(Attempts(user, channel, CityOf(task[t]),
                                                 country)) = 1

\* ------------------------------------------------------------------------
\* Properties of the end of a cycle (Spec)
\* ------------------------------------------------------------------------

\* C16: no invocation of monitor_appointments ends by raising, whatever
\* failures of the engine, of the store or of the clean-up it met, on the
\* path of a cycle, of a skipped invocation and of a stale reset alike: an
\* invocation that has ended has returned.
C16_returns ==
    \A t \in Tasks :
        /\ task[t].pc # "raised"
        /\ task[t].pc \notin {"idle", "start"} /\ ~InCycle(t)
               /\ task[t].pc # "stale_cleanup" => task[t].pc = "done"

\* the initial cycle met a failure and has returned, every scheduled
\* invocation has been made, and one of them has returned as well
C16_witness ==
    /\ task[0].pc = "done"
    /\ faults_left < MaxFaults
    /\ \E t \in Tasks : t > 0 /\ task[t].pc = "done"
    /\ ticks_left = 0

\* ------------------------------------------------------------------------
\* Properties of the session of one cycle (SpecBatch)
\* ------------------------------------------------------------------------

\* C17 as stated: when the cycle has ended, the monitor holds no crawler and
\* no crawler opened during the cycle is left open.
C17_no_live_session ==
    \A t \in Tasks :
        task[t].pc = "done" =>
            /\ monitor.crawler = NoSession
            /\ open_sessions = {}

\* ------------------------------------------------------------------------
\* Properties of the set-up guard under the scheduler (Spec)
\* ------------------------------------------------------------------------

\* the tasks suspended in __aenter__ inside setup_crawler
Opening == {t \in Tasks : task[t].pc \in {"batch_setup", "city_setup", "x_setup"}}

\* C18 as stated: the opening of a session is never in flight twice at the
\* same time: while one setup_crawler call is suspended in __aenter__, no
\* other call reaches __aenter__.
C18_single_open == Cardinality(Opening) <= 1

\* ------------------------------------------------------------------------
\* Properties of setup_crawler and cleanup_crawler (SpecSession)
\* ------------------------------------------------------------------------

\* caller c calls the function op in this step
Calls(c, op) ==
    /\ calls'.by[c].call # calls.by[c].call
    /\ calls'.by[c].op = op

\* the call of op that caller c is suspended in returns in this step
Resumes(c, op) ==
    /\ calls.by[c].op = op
    /\ calls.by[c].pc # "idle"
    /\ calls'.by[c].pc = "idle"

Absent(m) == m.crawler = NoSession

\* C19: setup_crawler never raises, and: called with a crawler in place it
\* returns True at once without opening one; called with none and no call
\* initialising it opens one; when the opening succeeds it returns True with
\* the new crawler in place; when the opening times out or raises it returns
\* False with no crawler in place.
C19_outcomes ==
    [][\A c \in Callers :
          /\ calls'.by[c].op = "setup" =>
                calls'.by[c].result \in {"none", "True", "False"}
          /\ Calls(c, "setup") /\ ~Absent(monitor) =>
                /\ calls'.by[c].pc = "idle"
                /\ calls'.by[c].result = "True"
                /\ ~calls'.by[c].awaited
                /\ monitor' = monitor
                /\ open_sessions' = open_sessions
          /\ Calls(c, "setup") /\ Absent(monitor)
                /\ ~monitor.initializing_crawler =>
                /\ calls'.by[c].pc = "aenter"
                /\ monitor'.initializing_crawler
                /\ Absent(monitor')
          /\ Resumes(c, "setup") /\ open_sessions' # open_sessions =>
                /\ calls'.by[c].result = "True"
                /\ monitor'.crawler \in open_sessions' \ open_sessions
                /\ ~monitor'.initializing_crawler
          /\ Resumes(c, "setup") /\ open_sessions' = open_sessions =>
                /\ calls'.by[c].result = "False"
                /\ Absent(monitor')
                /\ ~monitor'.initializing_crawler]_vars

\* an opening has failed; a later call opened a crawler, and the last call
\* of a caller found it in place and returned True without awaiting
C19_witness ==
    /\ faults_left < SessionFaults
    /\ ~Absent(monitor)
    /\ monitor.crawler \in open_sessions
    /\ \E c \in Callers :
          /\ calls.by[c].op = "setup"
          /\ calls.by[c].pc = "idle"
          /\ calls.by[c].result = "True"
          /\ ~calls.by[c].awaited

\* C20: cleanup_crawler never raises and leaves no crawler in place, whether
\* __aexit__ returns or raises; called with no crawler in place it returns at
\* once, awaits nothing and changes nothing, so that a second call after a
\* first is without effect.
C20_release ==
    [][\A c \in Callers :
          /\ calls'.by[c].op = "cleanup" => calls'.by[c].result \in {"none", "None"}
          /\ Calls(c, "cleanup") /\ Absent(monitor) =>
                /\ calls'.by[c].pc = "idle"
                /\ calls'.by[c].result = "None"
                /\ ~calls'.by[c].awaited
                /\ monitor' = monitor
                /\ open_sessions' = open_sessions
                /\ faults_left' = faults_left
          /\ Calls(c, "cleanup") /\ ~Absent(monitor) =>
                /\ calls'.by[c].pc = "aexit"
                /\ calls'.by[c].ref = monitor.crawler
          /\ Resumes(c, "cleanup") =>
                /\ calls'.by[c].result = "None"
                /\ Absent(monitor')
                /\ ~monitor'.initializing_crawler
                /\ calls.by[c].ref \notin open_sessions']_vars

\* three calls were made: a set-up that opened a crawler, a clean-up whose
\* __aexit__ raised, and a clean-up after it that found no crawler in place
C20_witness ==
    /\ calls.left = MaxCalls - 3
    /\ faults_left < SessionFaults
    /\ Absent(monitor)
    /\ open_sessions = {}
    /\ \E c, d \in Callers :
          /\ calls.by[c].op = "cleanup" /\ calls.by[c].pc = "idle"
          /\ calls.by[c].awaited
          /\ calls.by[d].op = "cleanup" /\ calls.by[d].pc = "idle"
          /\ ~calls.by[d].awaited
          /\ calls.by[d].call < calls.by[c].call

\* ------------------------------------------------------------------------
\* Properties of detect_changes against a stored document (SpecDetect)
\* ------------------------------------------------------------------------

InCurrent(country) == \E k \in 1..Len(Current) : Current[k].country = country

\* C29: when a previous document exists, a country of the current document
\* that is not among the previous countries gives exactly one event, of kind
\* new_country and carrying the country's slots, if it has at least one slot
\* value that is neither absent nor "0", and no event otherwise.
C29_new_country ==
    Returned /\ Previous.exists =>
        \A k \in 1..Len(Current) :
            ~InPrevious(Current[k].country) =>
                IF HasOpenSlot(Current[k])
                THEN /\ EventsFor(Current[k].country) = 1
                     /\ EventFor(Current[k].country).type = "new_country"
                     /\ EventFor(Current[k].country).slots = Current[k].slots
                ELSE EventsFor(Current[k].country) = 0

\* the stored document has Spain only; France is read with its first month
\* at "0" and a later month open, and gives the one new_country event
C29_witness ==
    /\ Returned
    /\ Previous.exists
    /\ Len(Previous.countries) = 1
    /\ ~InPrevious("France")
    /\ Current[1].country = "France"
    /\ Current[1].slots[1].value = <<"0">>
    /\ Current[1].slots[2].value = <<"3">>
    /\ Len(Events) = 1
    /\ Events[1].type = "new_country"

\* no tracked month of the country rose
NoRise(country_data) ==
    \A m \in 1..Len(country_data.slots) : ~Rose(country_data, m)

\* C30: every event is for a country of the current document; a country of
\* the previous document that is missing from the current one gives no
\* event; and a country of both documents none of whose tracked months has
\* parse(current) > parse(previous) gives no event.
C30_only_improvements ==
    Returned =>
        /\ \A e \in 1..Len(Events) : InCurrent(Events[e].country)
        /\ Previous.exists =>
              /\ \A p \in 1..Len(Previous.countries) :
                    ~InCurrent(Previous.countries[p].country)
                        => EventsFor(Previous.countries[p].country) = 0
              /\ \A k \in 1..Len(Current) :
                    InPrevious(Current[k].country) /\ NoRise(Current[k])
                        => EventsFor(Current[k].country) = 0

\* Spain was stored with an open month and is missing from the reading;
\* France was stored at "3", "5+", "2" and is read at "2", "5+", "0"
C30_witness ==
    /\ Returned
    /\ Previous.exists
    /\ InPrevious("Spain")
    /\ ~InCurrent("Spain")
    /\ InPrevious("France")
    /\ PreviousSlots("France") = SlotMap(<<<<"3">>, <<"5", "+">>, <<"2">>>>)
    /\ Current[1].slots = SlotMap(<<<<"2">>, <<"5", "+">>, <<"0">>>>)
    /\ Events = <<>>

\* ------------------------------------------------------------------------
\* Properties of extract_appointment_data in one cycle (SpecBatch)
\* ------------------------------------------------------------------------

\* extract_appointment_data has returned to task t, with error data after a
\* failure signal of the engine or with the data of the page
CheckFailed(t) ==
    /\ task[t].pc = "city_save"
    /\ task[t].current_data.has_error
    /\ task[t].outcome \in {"unsuccessful", "raised", "invalid"}

\* C21 as stated: when extract_appointment_data returns error data after a
\* failure signal of the engine (arun raised, the crawler turned out to be
\* None in use, or the result was unsuccessful), the crawler that gave the
\* failure has been torn down: none is in place for the next city and none
\* is left open.
C21_torn_down ==
    \A t \in Tasks :
        CheckFailed(t) => monitor.crawler = NoSession /\ open_sessions = {}

\* extract_appointment_data returns error data to task t in this step
GivesUp(t) ==
    /\ task'[t].pc = "city_save"
    /\ task'[t].current_data.has_error
    /\ task'[t].j = task[t].j

\* C22: for one city in one cycle arun is called at most max_retries + 1 = 3
\* times and the extraction calls setup_crawler at most max_retries = 2
\* times; when the last allowed arun raises, or when a set-up of the
\* extraction fails, the extraction returns error data for the city, and
\* from there the loop goes on with the next city (see C11).
C22_bounded_retries ==
    /\ [](\A t \in Tasks :
             /\ task[t].fetches <= max_retries + 1
             /\ task[t].setups <= max_retries)
    /\ [][\A t \in Tasks :
             /\ task[t].pc = "x_arun" /\ task[t].fetches = max_retries + 1
                   /\ task'[t] # task[t] => task'[t].pc = "city_save"
             /\ task[t].pc = "x_arun" /\ task[t].fetches = max_retries + 1
                   /\ task'[t].outcome \in {"raised", "invalid"} => GivesUp(t)
             /\ task[t].pc = "x_setup" /\ task'[t] # task[t]
                   /\ monitor'.crawler = NoSession => GivesUp(t)
             /\ task[t].pc = "city_save" /\ task'[t] # task[t] =>
                   StaysOrAdvances(t) /\ task'[t].pc \notin {"x_setup", "x_arun"}]_vars

\* arun raised three times for the second city, with a new crawler opened
\* before each retry; the city is given up with error data
C22_witness ==
    /\ task[0].pc = "city_save"
    /\ task[0].j = 2
    /\ task[0].current_data.has_error
    /\ task[0].fetches = max_retries + 1
    /\ task[0].setups = max_retries
    /\ task[0].outcome = "raised"
    /\ monitor.crawler # NoSession

\* the arun of task t returns something that is not a usable result in
\* this step: success None or False, no markdown, or a page that cannot be
\* parsed
BadResult(t) ==
    /\ task[t].pc = "x_arun"
    /\ task'[t].outcome = "unsuccessful"
    /\ task'[t] # task[t]

\* C23: an unsuccessful or malformed result, or a parse error, makes
\* extract_appointment_data return error data at once: the failure is not
\* counted as a retry, no crawler is cleaned up or set up, and arun is not
\* called again for that city in that cycle.
C23_no_retry ==
    /\ [][\A t \in Tasks :
             BadResult(t) =>
                 /\ GivesUp(t)
                 /\ task'[t].retry_count = task[t].retry_count
                 /\ task'[t].fetches = task[t].fetches
                 /\ task'[t].setups = task[t].setups
                 /\ monitor' = monitor
                 /\ open_sessions' = open_sessions]_vars
    /\ [](\A t \in Tasks :
             task[t].outcome = "unsuccessful" =>
                 task[t].pc \notin {"x_arun", "x_setup", "x_sleep", "x_cleanup"})

\* the first arun for the second city gave an unsuccessful result: the error
\* data is saved and the city is left after that one call, the crawler kept
C23_witness ==
    /\ task[0].pc = "city_sleep"
    /\ task[0].j = 2
    /\ task[0].outcome = "unsuccessful"
    /\ task[0].fetches = 1
    /\ task[0].setups = 0
    /\ task[0].retry_count = 0
    /\ FailedCity(2)

\* C24 as stated: whenever the set-up of a batch is called no crawler is in
\* place, and at no time of the cycle is more than one crawler open (opened
\* and not yet closed).
C24_one_live ==
    /\ \A t \in Tasks : task[t].pc = "batch_setup" => monitor.crawler = NoSession
    /\ Cardinality(open_sessions) <= 1

\* ------------------------------------------------------------------------
\* Properties of the handling of error data in one cycle (SpecBatch)
\* ------------------------------------------------------------------------

\* the save of the error data that extract_appointment_data returned to
\* task t ends in this step
ErrorSaved(t) ==
    /\ task[t].pc = "city_save"
    /\ task[t].current_data.has_error
    /\ task'[t] # task[t]

\* C25: when extract_appointment_data returns error data for a city, the
\* data is saved to the store (the document is updated with it unless the
\* store itself fails), and neither detect_changes nor notify_users is
\* called for that city in that cycle: the loop goes to the pause after the
\* city with no changes and nothing sent.
C25_error_persisted ==
    /\ [][\A t \in Tasks :
             ErrorSaved(t) =>
                 /\ task'[t].pc = "city_sleep"
                 /\ task'[t].changes = <<>>
                 /\ sent' = sent
                 /\ \/ store' = [store EXCEPT ![CityOf(task[t])] =
                                    SetDoc(store[CityOf(task[t])],
                                           task[t].current_data)]
                    \/ store' = store /\ faults_left' = faults_left - 1]_vars
    /\ [](\A t \in Tasks :
             /\ task[t].pc \in {"city_get_last", "city_get_users", "city_err_save"}
                   => ~task[t].current_data.has_error
             /\ task[t].current_data.has_error => task[t].changes = <<>>)

\* the first city, whose page shows more than its stored document and which
\* has subscribers, was given up with error data: the document carries the
\* error and the cycle is at the pause after the city
C25_witness ==
    /\ task[0].pc = "city_sleep"
    /\ task[0].j = 1
    /\ task[0].current_data = ExtractErrorData
    /\ store[1].has_error
    /\ store[1].countries = <<>>
    /\ users[1] # <<>>
    /\ task[0].changes = <<>>
    /\ sent = <<>>

\* ------------------------------------------------------------------------
\* Properties of the documents detect_changes reads (Spec)
\* ------------------------------------------------------------------------

\* get_last_appointment_data returns the stored document to detect_changes
\* in this step of task t
ReadsPrevious(t) ==
    /\ task[t].pc = "city_get_last"
    /\ task'[t].pc # "city_get_last"
    /\ faults_left' = faults_left

\* C26 as stated: a stored document whose error field is set is never the
\* previous document of detect_changes.
C26_never_diffed ==
    [][\A t \in Tasks :
          ReadsPrevious(t) => ~store[CityOf(task[t])].has_error]_vars

\* ------------------------------------------------------------------------
\* Properties of the order of the cities of a cycle (SpecBatch)
\* ------------------------------------------------------------------------

\* the position of a city in the roster
RosterIndex(c) == CHOOSE k \in 1..Len(all_cities) : all_cities[k] = c

\* the cities of s follow one another as in the roster, none twice
InRosterOrder(s) ==
    \A a, b \in 1..Len(s) : a < b => RosterIndex(s[a]) < RosterIndex(s[b])

Cities(s) == {s[k] : k \in 1..Len(s)}

\* the cities of the batch the task is in
BatchOf(t) == {all_cities[k] : k \in task[t].i..BatchLast(task[t].i)}

\* the task has left the last city of a batch whose set-up succeeded
AtBatchEnd(t) == task[t].pc \in {"batch_end_cleanup", "batch_end_sleep"}

\* the batches are slices of batch_size cities, taken one after the other,
\* the cities of a batch are entered one at a time in roster order, and the
\* city the task is in is the last one it entered
Sequential(t) ==
    /\ InRosterOrder(task[t].visited)
    /\ InRosterOrder(task[t].checked)
    /\ Cities(task[t].checked) \subseteq Cities(task[t].visited)
    /\ task[t].i > 0 => (task[t].i - 1) % batch_size = 0
    /\ \A c \in Cities(task[t].visited) :
          task[t].i > 0 /\ RosterIndex(c) <= BatchLast(task[t].i)
    /\ task[t].pc \in CityPcs =>
          /\ task[t].j \in task[t].i..BatchLast(task[t].i)
          /\ task[t].visited # <<>>
          /\ task[t].visited[Len(task[t].visited)] = CityOf(task[t])
    /\ task[t].pc = "batch_skip_sleep" =>
          BatchOf(t) \cap Cities(task[t].visited) = {}

\* C27 as stated: the cities are taken batch by batch in roster order, one
\* at a time, none twice, and at the end of a batch whose set-up succeeded
\* extract_appointment_data has been called for every city of the batch.
C27_stated ==
    \A t \in Tasks :
       /\ Sequential(t)
       /\ AtBatchEnd(t) => BatchOf(t) \subseteq Cities(task[t].checked)

\* C27, amended: the cities are taken batch by batch in roster order, one at
\* a time, none twice; at the end of a batch whose set-up succeeded every
\* city of the batch has been entered once, and extract_appointment_data was
\* called at most once for it; a city that is past the set-up at its start
\* has had the call, so the only cities entered without it are those that
\* found no crawler and whose set_up failed.
C27_in_order ==
    \A t \in Tasks :
       /\ Sequential(t)
       /\ AtBatchEnd(t) => BatchOf(t) \subseteq Cities(task[t].visited)
       /\ task[t].pc \in CityPcs \ {"city_setup", "city_setup_save"} =>
             CityOf(task[t]) \in Cities(task[t].checked)
       /\ task[t].pc = "city_setup_save" =>
             CityOf(task[t]) \notin Cities(task[t].checked)

\* the end of a full batch in which one city was entered without a crawler,
\* its set-up failed and the city was left without the call
C27_witness ==
    /\ AtBatchEnd(0)
    /\ task[0].i = 1
    /\ Len(task[0].visited) = batch_size
    /\ Len(task[0].checked) = batch_size - 1

\* ------------------------------------------------------------------------
\* Properties of the crawler a fetch is started on (Spec)
\* ------------------------------------------------------------------------

\* the tasks suspended in the __aexit__ that cleanup_crawler awaits
Closing ==
    {t \in Tasks : task[t].pc \in {"stale_cleanup", "batch_cleanup", "x_cleanup",
                                    "batch_end_cleanup", "final_cleanup"}}

\* task t calls arun in this step
StartsFetch(t) ==
    /\ task'[t].pc = "x_arun"
    /\ task[t].pc # "x_arun" \/ task'[t].fetches # task[t].fetches

\* C28 as stated: the crawler a task calls arun on is open at that moment,
\* and no other task is inside the __aexit__ of that crawler.
C28_ready_at_fetch ==
    [][\A t \in Tasks :
          StartsFetch(t) =>
             /\ task'[t].ref \in open_sessions'
             /\ \A u \in Closing : task[u].ref # task'[t].ref]_vars

\* ------------------------------------------------------------------------
\* Properties of the failures of the store inside a cycle (SpecBatch)
\* ------------------------------------------------------------------------

\* the call of the store that task t is suspended in at pc fails in this step
StoreFails(t, pc) ==
    /\ task[t].pc = pc
    /\ task'[t] # task[t]
    /\ faults_left' = faults_left - 1

\* the task is still in the same batch of the same cycle after the step
SameBatch(t) ==
    /\ InCycle(t)'
    /\ task'[t].i = task[t].i
    /\ task'[t].visited = task[t].visited

\* C31: when get_users_by_city fails, nothing is sent for the city, the
\* stored document of the city stays as the save left it, and the cycle goes
\* on to the pause that precedes the next city; when a save fails, the store
\* is left as it was and the cycle goes on in the same batch.
C31_store_failures ==
    [][\A t \in Tasks :
          /\ StoreFails(t, "city_get_users") =>
                /\ sent' = sent
                /\ store' = store
                /\ task'[t].pc = "city_sleep"
                /\ SameBatch(t)
          /\ StoreFails(t, "city_save") =>
                /\ store' = store
                /\ task'[t].pc \in {"city_get_last", "city_sleep"}
                /\ SameBatch(t)
          /\ StoreFails(t, "city_err_save") =>
                /\ store' = store
                /\ task'[t].pc = "city_sleep"
                /\ SameBatch(t)]_vars

\* the state a failed lookup leaves: the city has subscribers and changes
\* were detected for it, nothing was sent, the store holds the reading that
\* was saved, without error, and the cycle is at the pause after the city
C31_witness ==
    /\ task[0].pc = "city_sleep"
    /\ task[0].j = 1
    /\ task[0].changes # <<>>
    /\ users[1] # <<>>
    /\ sent = <<>>
    /\ ~store[1].has_error
    /\ store[1].countries = task[0].current_data.countries
    /\ faults_left = BatchFaults - 2

\* ------------------------------------------------------------------------
\* Properties of the pause between the cities of a batch (SpecBatch)
\* ------------------------------------------------------------------------

\* task t leaves a city of the batch and enters the next one in this step
EntersNextCity(t) ==
    /\ task[t].pc \in CityPcs
    /\ Len(task'[t].visited) > Len(task[t].visited)

\* C32 as stated: the step that takes a task from one city of a batch into
\* the next one is the end of the asyncio.sleep(2) after the city, whatever
\* the outcome of the city was.
C32_delay_always ==
    [][\A t \in Tasks : EntersNextCity(t) => task[t].pc = "city_sleep"]_vars

\* ------------------------------------------------------------------------
\* Properties of the kinds of change detect_changes returns (SpecDetect)
\* ------------------------------------------------------------------------

\* C33: no change of type new_slots is ever returned, and with a previous
\* document every change is of type new_country or increased_availability.
C33_no_new_slots ==
    Returned =>
        \A e \in 1..Len(Events) :
            /\ Events[e].type # "new_slots"
            /\ Previous.exists =>
                  Events[e].type \in {"new_country", "increased_availability"}

\* France was stored with its first month at "0" and is read with that
\* month open: the condition of the new_slots branch is true, and the change
\* returned is the increased_availability of the branch before it
C33_witness ==
    /\ Returned
    /\ Previous.exists
    /\ InPrevious("France")
    /\ Current[1].country = "France"
    /\ Parse(PreviousAt(Current[1], 1)) = 0
    /\ PreviousAt(Current[1], 1) = <<"0">>
    /\ Parse(Current[1].slots[1].value) > 0
    /\ EventsFor("France") = 1
    /\ EventFor("France").type = "increased_availability"
    /\ EventFor("France").month = Current[1].slots[1].month

\* ------------------------------------------------------------------------
\* Properties of the owner of the lock (Spec)
\* ------------------------------------------------------------------------

\* task t is the cycle that took the lock last
HoldsLock(t) ==
    /\ InCycle(t)
    /\ \A u \in Tasks : InCycle(u) => u <= t

\* C34 as stated: the end of a cycle that is not the one that took the lock
\* last (a cycle abandoned by a stale reset, with a newer cycle running)
\* leaves a held lock held, and leaves the crawler and the open sessions as
\* they were.
C34_own_lock ==
    [][\A t \in Tasks :
          InCycle(t) /\ ~InCycle(t)' /\ ~HoldsLock(t) =>
              /\ LockHeld => monitor'.monitoring_in_progress
              /\ monitor'.crawler = monitor.crawler
              /\ open_sessions' = open_sessions]_vars

\* ------------------------------------------------------------------------
\* Properties of a reading that repeats an earlier one (Spec)
\* ------------------------------------------------------------------------

\* detect_changes of task t ends in this step
DetectEnds(t) ==
    /\ task[t].pc = "city_get_last"
    /\ task'[t].pc # "city_get_last"

SaveSucceeds(t) ==
    /\ task[t].pc = "city_save"
    /\ task'[t].pc # "city_save"
    /\ faults_left' = faults_left

\* C36 as stated: after a successful save of a snapshot the document of the
\* city, which get_last_appointment_data returns, has the countries, the
\* unavailable list and the error status of that snapshot.
C36_round_trip ==
    [][\A t \in Tasks :
          SaveSucceeds(t) =>
              /\ store'[CityOf(task[t])].exists
              /\ store'[CityOf(task[t])].countries = task[t].current_data.countries
              /\ store'[CityOf(task[t])].temporarily_unavailable
                    = task[t].current_data.temporarily_unavailable
              /\ store'[CityOf(task[t])].has_error = task[t].current_data.has_error]_vars

\* ------------------------------------------------------------------------
\* Properties of the flag _initializing_crawler (Spec)
\* ------------------------------------------------------------------------

\* C37 as stated: _initializing_crawler is true exactly while a setup_crawler
\* call is suspended in __aenter__: no other caller clears it before that
\* call returns, and every return of setup_crawler and cleanup_crawler
\* leaves it false.
C37_flag_exact == monitor.initializing_crawler <=> Opening # {}

\* ------------------------------------------------------------------------
\* Properties of the crawler pipeline (SpecCrawl)
\* ------------------------------------------------------------------------

\* detect_slot_changes has returned for the city the crawler is in
CrawlReturned == task[0].pc \in {"crawl_notify", "crawl_save"}

\* the previous record get_last_appointment_data gave detect_slot_changes:
\* the document the store held, none when the read failed
CrawlPrevious ==
    IF task[0].outcome = "read" THEN task[0].stored_before ELSE NoDoc

\* the number of changes of the given type for the country and month
CrawlChanges(country, type, month) ==
    Cardinality({k \in 1..Len(task[0].changes) :
                    /\ task[0].changes[k].country = country
                    /\ task[0].changes[k].change_type = type
                    /\ task[0].changes[k].month = month})

\* the country is in the document the store held at detection
Known(country) ==
    \E k \in 1..Len(task[0].stored_before.countries) :
        task[0].stored_before.countries[k].country = country

\* the value the document the store held at detection has for the month
StoredValue(country, month) ==
    LET cs == task[0].stored_before.countries
        c == cs[CHOOSE k \in 1..Len(cs) : cs[k].country = country]
    IN  SlotGet(c.slots, month)

\* the month at position m of the country became available
BecameAvailable(country_data, m) ==
    /\ StoredValue(country_data.country, country_data.slots[m].month)
          \in {NoSlot, <<"0">>}
    /\ country_data.slots[m].value \notin {NoSlot, <<"0">>}

\* C38: the store still holds the document of before the save when
\* detect_slot_changes has returned; without a previous record there is no
\* change; with one, there is one slots_available change for
\* every month of a known country that became available and none for
\* another month, one new_country change for every unknown country with a
\* slot that is not None and none for another, and no further change.
C38_pipeline ==
    CrawlReturned =>
        LET cur == task[0].current_data.countries
        IN  /\ store[CityOf(task[0])] = task[0].stored_before
            /\ ~CrawlPrevious.exists => task[0].changes = <<>>
            /\ CrawlPrevious.exists =>
                  /\ \A k \in 1..Len(cur) :
                        IF Known(cur[k].country)
                        THEN /\ \A m \in 1..Len(cur[k].slots) :
                                   CrawlChanges(cur[k].country, "slots_available",
                                                cur[k].slots[m].month)
                                      = IF BecameAvailable(cur[k], m) THEN 1 ELSE 0
                             /\ CrawlChanges(cur[k].country, "new_country", NoMonth) = 0
                        ELSE /\ CrawlChanges(cur[k].country, "new_country", NoMonth)
                                   = IF \E m \in 1..Len(cur[k].slots) :
                                             cur[k].slots[m].value # NoSlot
                                     THEN 1 ELSE 0
                             /\ \A m \in 1..Len(cur[k].slots) :
                                   CrawlChanges(cur[k].country, "slots_available",
                                                cur[k].slots[m].month) = 0
                  /\ \A e \in 1..Len(task[0].changes) :
                        /\ \E k \in 1..Len(cur) :
                              cur[k].country = task[0].changes[e].country
                        /\ task[0].changes[e].change_type
                              \in {"slots_available", "new_country"}

\* France was stored with "0" and None in its first two months and is read
\* with both open, Spain is read for the first time with one month open:
\* two slots_available changes for France and the new_country change of
\* Spain, before the reading is saved
C38_witness ==
    /\ task[0].pc = "crawl_notify"
    /\ task[0].outcome = "read"
    /\ Known("France")
    /\ ~Known("Spain")
    /\ StoredValue("France", "MAY") = <<"0">>
    /\ StoredValue("France", "JUN") = NoSlot
    /\ Len(task[0].current_data.countries) = 2
    /\ task[0].current_data.countries[1].slots[1].value = <<"2">>
    /\ task[0].current_data.countries[1].slots[2].value = <<"2">>
    /\ CrawlChanges("France", "slots_available", "MAY") = 1
    /\ CrawlChanges("France", "slots_available", "JUN") = 1
    /\ CrawlChanges("Spain", "new_country", NoMonth) = 1
    /\ store[1] = task[0].stored_before

\* ------------------------------------------------------------------------
\* Properties of the iterations of CrawlerScheduler (SpecSched)
\* ------------------------------------------------------------------------

\* run_crawler_sync creates task t in this step
Created(t) == task[t].pc = "idle" /\ task'[t].pc # "idle"

\* the iteration of task t ends in this step
IterationEnds(t) == task[t].pc # "done" /\ task'[t].pc = "done"

IterationFailed(l) == l.outcome \in {"init_failed", "crawl_failed"}

\* C39: a task is created only when no task is pending; when a failed
\* iteration ends self.crawler is None, when a successful one ends
\* self.crawler is the crawler it crawled with; the iteration after a failed
\* one initialises a crawler that is new, the iteration after a successful
\* one crawls with the crawler of that one without initialising.
C39_iterations ==
    [][\A t \in Tasks :
          /\ Created(t) => ~TaskPending
          /\ IterationEnds(t) =>
                IF IterationFailed(task[t])
                THEN monitor'.crawler = NoSession
                ELSE /\ task[t].outcome = "ok"
                     /\ monitor'.crawler = task[t].ref
                     /\ task[t].ref \in open_sessions'
          /\ Created(t) /\ t > 0 =>
                IF IterationFailed(task[t - 1])
                THEN /\ task'[t].setups = 1
                     /\ task'[t].pc = "sched_setup" =>
                           /\ monitor'.crawler \notin SessionRefs
                           /\ monitor'.crawler # NoSession
                     /\ task'[t].pc # "sched_setup" =>
                           /\ task'[t].outcome = "init_failed"
                           /\ monitor'.crawler = NoSession
                ELSE /\ task'[t].setups = 0
                     /\ task'[t].pc = "sched_crawl"
                     /\ task'[t].ref = task[t - 1].ref
                     /\ monitor'.crawler = task[t - 1].ref]_vars

\* the first iteration failed in crawl_cities and ended without a crawler,
\* the second one initialised a new crawler and succeeded, and the third one
\* is crawling with the crawler of the second without having initialised
C39_witness ==
    /\ task[0].pc = "done"
    /\ task[0].outcome = "crawl_failed"
    /\ task[1].pc = "done"
    /\ task[1].outcome = "ok"
    /\ task[1].setups = 1
    /\ task[1].ref # task[0].ref
    /\ task[2].pc = "sched_crawl"
    /\ task[2].setups = 0
    /\ task[2].ref = task[1].ref
    /\ monitor.crawler = task[1].ref
    /\ open_sessions = {task[1].ref}

=============================================================================
